---- MODULE Spec2Model ----
(***************************************************************************)
(* A model of three parts of the cweb repository:                          *)
(*   - the text chunking routine (DocumentChunker.chunk_text and its       *)
(*     copies in scripts/),                                                *)
(*   - config/neptune_config.py (module-level configuration and            *)
(*     get_neptune_connection_string),                                     *)
(*   - src/memory/evidence.py (EvidenceStore).                             *)
(* Text is a sequence of one-character strings; positions are 0-based as   *)
(* in Python, so text[i] of the source is text[i + 1] here.                *)
(***************************************************************************)
EXTENDS Integers, Sequences, FiniteSets, TLC

\* ------------------------------------------------------------------ bounds
MaxLen == 10
MaxChunkSize == 9
MaxOverlap == 2
MaxChunks == 11
MaxStoreCalls == 4
MaxResponseLen == 5

\* ------------------------------------------------------------------ helpers
Min(a, b) == IF a < b THEN a ELSE b
Max(a, b) == IF a > b THEN a ELSE b

\* text[start:end] for 0 <= start <= end <= len(text)
Slice(t, s, e) == SubSeq(t, s + 1, e)

PARAGRAPH == <<"\n", "\n">>
SENT_DOT == <<".", " ">>
SENT_BANG == <<"!", " ">>
SENT_QUERY == <<"?", " ">>
Breaks == {PARAGRAPH, SENT_DOT, SENT_BANG, SENT_QUERY}

\* str.rfind(sub, start, end): the highest index i with start <= i and
\* i + len(sub) <= end at which sub occurs, or -1.
RECURSIVE rfindFrom(_, _, _, _)
rfindFrom(t, sub, lo, i) ==
    IF i < lo THEN -1
    ELSE IF Slice(t, i, i + Len(sub)) = sub THEN i
    ELSE rfindFrom(t, sub, lo, i - 1)

rfind(t, sub, s, e) == rfindFrom(t, sub, s, e - Len(sub))

\* ------------------------------------------------------------------ inputs
Plain(n) == [i \in 1..n |-> "x"]

\* t with the two characters of b written at 0-based index i (t itself when
\* they do not fit or b is empty)
Put(t, i, b) ==
    IF b = <<>> \/ i + 2 > Len(t) THEN t
    ELSE [k \in 1..Len(t) |-> IF k = i + 1 THEN b[1] ELSE IF k = i + 2 THEN b[2] ELSE t[k]]

\* Texts of at most MaxLen characters holding at most two break marks.
Texts ==
    { Put(Put(Plain(n), i, b1), j, b2) :
        n \in 0..MaxLen, i \in 0..(MaxLen - 2), j \in 0..(MaxLen - 2),
        b1 \in Breaks \cup {<<>>}, b2 \in Breaks \cup {<<>>} }

\* ------------------------------------------------------------------ state
VARIABLES
    text, chunk_size, overlap,   \* the arguments of the running call
    pc,                          \* "idle" | "loop" | "done"
    start,                       \* the loop variable start
    chunks,                      \* the list chunks
    spans                        \* the (start, end) of every iteration so far

chunker_vars == <<text, chunk_size, overlap, pc, start, chunks, spans>>

\* The other copies of the routine, run on the same arguments: each copy's
\* position, start, chunks and (start, end) history.
Copies == {"simple", "graphrag", "annotator"}
VARIABLES copy_pc, copy_start, copy_chunks, copy_spans

copies_vars == <<copy_pc, copy_start, copy_chunks, copy_spans>>

\* config/neptune_config.py and the process environment.
VARIABLES
    environ,                \* os.environ restricted to the NEPTUNE_* variables
    dotenv_file,            \* the variables the .env file defines
    cfg_loaded,             \* config.neptune_config is in sys.modules
    NEPTUNE_ENDPOINT, NEPTUNE_PORT, NEPTUNE_AUTH_MODE,   \* the module's globals
    exec_environ,           \* os.environ as the module body last read it
    import_fresh,           \* the environment is unchanged since the last import statement
    conn_result             \* outcome of the last get_neptune_connection_string()

config_vars == <<environ, dotenv_file, cfg_loaded, NEPTUNE_ENDPOINT, NEPTUNE_PORT,
                 NEPTUNE_AUTH_MODE, exec_environ, import_fresh, conn_result>>

\* src/memory/evidence.py: one EvidenceStore and the two stores behind it.
VARIABLES
    es_created,             \* EvidenceStore() has returned
    es_connection,          \* self.connection: the string the connection was opened with
    _vector_store,          \* self._vector_store: None (0) or a NeptuneVectorStore instance
    _graph_store,           \* self._graph_store: None (0) or a NeptuneGraphStore instance
    vector_ctor_calls,      \* calls of NeptuneVectorStore(...)
    graph_ctor_calls,       \* calls of NeptuneGraphStore(...)
    vector_returned,        \* the values the vector_store property has returned
    graph_returned,         \* the values the graph_store property has returned
    store_log,              \* the calls made on the two stores, in order
    es_call,                \* the last call of an EvidenceStore method and its outcome
    g_vertices              \* the vertices of the graph that self.g traverses

evidence_vars == <<es_created, es_connection, _vector_store, _graph_store,
                   vector_ctor_calls, graph_ctor_calls, vector_returned, graph_returned,
                   store_log, es_call, g_vertices>>

\* src/memory/evidence.py: one Evidence object, as the tests build and read it.
VARIABLES
    obj_args,               \* <<>> or the arguments of the last Evidence(...)
    obj,                    \* <<>> or <<the Evidence it built>>
    obj_dict                \* <<>> or <<what obj.to_dict() returned>>

object_vars == <<obj_args, obj, obj_dict>>

\* scripts/extract_arguments_from_pdf.py: one call of BedrockClient._extract_json.
VARIABLES
    ej_response,            \* the argument response: <<>> for None, <<s>> for a string s
    ej_result               \* how the call ended: [kind, value]

json_vars == <<ej_response, ej_result>>

\* scripts/simple_argument_extractor.py: BedrockClient and process_document.
VARIABLES
    bc_call,                \* the last call of a BedrockClient.extract_* method
    pd_call                 \* the last call of process_document

pipeline_vars == <<bc_call, pd_call>>

\* src/graphrag_integration/neptune_analytics_adapter.py
VARIABLES
    na_environ,             \* os.environ restricted to the NEPTUNE_ANALYTICS_* variables
    na_call                 \* the last call on NeptuneAnalyticsAdapter and its outcome

adapter_vars == <<na_environ, na_call>>

\* scripts/run_tests.py
VARIABLES
    rt_pc,                  \* where main is: "start" | "unit" | "integration" | "schema" | "report" | "exit"
    rt_args,                \* args: what parse_args returned
    all_passed,             \* the local all_passed of main
    rt_unit,                \* <<>> or <<the TestResult of the unittest run>>
    rt_integration,         \* <<>> or <<how the integration scripts went, integration_results>>
    rt_schema,              \* <<>> or <<how the schema scripts went, schema_results>>
    rt_exit                 \* <<>> or <<what main returned>>

tests_vars == <<rt_pc, rt_args, all_passed, rt_unit, rt_integration, rt_schema, rt_exit>>

\* scripts/simple_argument_extractor.py, process_document from line 349 on
VARIABLES
    ex_pc,                  \* the loop the run is in: "start" | "issues" | "positions" | "sup" |
                            \* "sup_evidence" | "reb" | "reb_evidence" | "done"
    ex_at,                  \* [i, j, k]: how many issues, positions, arguments the loops have taken
    ex_lists,               \* [issues, positions, args]: the lists the loops run over
    argument_model          \* the local argument_model

extraction_vars == <<ex_pc, ex_at, ex_lists, argument_model>>

\* scripts/graphrag_argument_extractor.py, ArgumentExtractor
VARIABLES
    ae_pc,                  \* where extract_arguments is: "start" | "chunks" | "merged" | ...
    ae_chunks,              \* [n, done]: len(chunks) and the number of chunks processed
    ae_model,               \* self.argument_model
    ae_graph,               \* the graph behind graph_store: [nodes, edges]
    ae_queries              \* the queries handed to execute_query so far, with what they met

extractor_vars == <<ae_pc, ae_chunks, ae_model, ae_graph, ae_queries>>

\* scripts/extract_claims_from_sample.py, process_text
VARIABLES
    pt_pc,                  \* the loop process_text is in: "start" | "claims" | "positions" |
                            \* "sup" | "reb" | "done"
    pt_at,                  \* [i, j, k]: how many claims, positions, arguments the loops have taken
    pt_lists,               \* [claims, positions, args]: the lists the loops run over
    pt_model,               \* the local argument_model
    pt_ids                  \* the generate_stable_id calls made for arguments and evidence

sample_vars == <<pt_pc, pt_at, pt_lists, pt_model, pt_ids>>

\* scripts/create_metacog_schema_opencypher.py
VARIABLES
    ms_pc,                  \* where create_metacog_schema is: "start" | "creating" | "returned"
    ms_log,                 \* the queries issued so far, each with what became of it
    ms_result               \* <<>> or <<what create_metacog_schema returned>>

metacog_vars == <<ms_pc, ms_log, ms_result>>

\* src/graphrag_integration/mock_implementation.py, LexicalGraph
VARIABLES
    lg_documents,           \* self.documents: the ids of the documents added
    lg_facts,               \* self.facts
    lg_call                 \* the last call on the LexicalGraph and what it returned

lexical_vars == <<lg_documents, lg_facts, lg_call>>

\* src/graphrag_integration/mock_implementation.py, DocumentProcessor
VARIABLES
    dp_pc,                  \* where DocumentProcessor.process is
    dp_document,            \* the Document: id, text, chunks
    dp_self,                \* the DocumentProcessor: chunk_size, chunk_overlap, embedding_model
    dp_i,                   \* i of the for loop
    dp_chunks               \* the local list chunks

processor_vars == <<dp_pc, dp_document, dp_self, dp_i, dp_chunks>>

\* The components that follow run_tests.py.
final_vars == <<extraction_vars, extractor_vars, sample_vars, metacog_vars, lexical_vars, processor_vars>>

\* The components from the Evidence class to run_tests.py.
middle_vars == <<object_vars, json_vars, pipeline_vars, adapter_vars, tests_vars>>

\* The components that follow the EvidenceStore.
later_vars == <<object_vars, json_vars, pipeline_vars, adapter_vars, tests_vars, final_vars>>

\* The components up to the EvidenceStore.
first_vars == <<chunker_vars, copies_vars, config_vars, evidence_vars>>

vars == <<chunker_vars, copies_vars, config_vars, evidence_vars, later_vars>>

\* ------------------------------------------------------------------ chunk_text
\* chunk_text_end with the two searches made over the whole text instead of the
\* window [start, end)
chunk_text_end_unwindowed(t, cs, s) ==
    LET text_length == Len(t)
        end0 == Min(s + cs, text_length)
    IN  IF end0 < text_length
        THEN LET paragraph_break == rfind(t, PARAGRAPH, s, text_length)
             IN  IF paragraph_break # -1 /\ paragraph_break > s + (cs \div 2)
                 THEN paragraph_break + 2
                 ELSE LET sentence_break ==
                              Max(rfind(t, SENT_DOT, s, text_length),
                                  Max(rfind(t, SENT_BANG, s, text_length),
                                      rfind(t, SENT_QUERY, s, text_length)))
                      IN  IF sentence_break # -1 /\ sentence_break > s + (cs \div 2)
                          THEN sentence_break + 2
                          ELSE end0
        ELSE end0

\* chunk_text_end with the sentence break tried before the paragraph break
chunk_text_end_sentence_first(t, cs, s) ==
    LET text_length == Len(t)
        end0 == Min(s + cs, text_length)
    IN  IF end0 < text_length
        THEN LET sentence_break ==
                     Max(rfind(t, SENT_DOT, s, end0),
                         Max(rfind(t, SENT_BANG, s, end0),
                             rfind(t, SENT_QUERY, s, end0)))
             IN  IF sentence_break # -1 /\ sentence_break > s + (cs \div 2)
                 THEN sentence_break + 2
                 ELSE LET paragraph_break == rfind(t, PARAGRAPH, s, end0)
                      IN  IF paragraph_break # -1 /\ paragraph_break > s + (cs \div 2)
                          THEN paragraph_break + 2
                          ELSE end0
        ELSE end0

\* chunk_text_advance stepping back one character too few
chunk_text_advance_short(s, e, ov) ==
    LET s1 == Max(s, e - ov + 1)
    IN  IF s1 >= e THEN e ELSE s1

\* chunk_text_advance with the forced break stepping one character past the end
chunk_text_advance_past_end(s, e, ov) ==
    LET s1 == Max(s, e - ov)
    IN  IF s1 >= e THEN e + 1 ELSE s1

\* chunk_text_slice taking text[start + 1:end]
chunk_text_slice_late(t, s, e) == Slice(t, s + 1, e)

\* One pass through the body of `while start < text_length`, up to the append:
\* the end of the chunk that starts at s.
chunk_text_end(t, cs, s) ==
    LET text_length == Len(t)
        end0 == Min(s + cs, text_length)
    IN  IF end0 < text_length
        THEN LET paragraph_break == rfind(t, PARAGRAPH, s, end0)
             IN  IF paragraph_break # -1 /\ paragraph_break > s + (cs \div 2)
                 THEN paragraph_break + 2
                 ELSE LET sentence_break ==
                              Max(rfind(t, SENT_DOT, s, end0),
                                  Max(rfind(t, SENT_BANG, s, end0),
                                      rfind(t, SENT_QUERY, s, end0)))
                      IN  IF sentence_break # -1 /\ sentence_break > s + (cs \div 2)
                          THEN sentence_break + 2
                          ELSE end0
        ELSE end0

\* start = max(start, end - overlap); if start >= end: start = end
chunk_text_advance(s, e, ov) ==
    LET s1 == Max(s, e - ov)
    IN  IF s1 >= e THEN e ELSE s1

\* chunks.append(text[start:end])
chunk_text_slice(t, s, e) == Slice(t, s, e)

\* The call: `if not text: return []`, else chunks = [], start = 0.
chunk_text_call ==
    /\ pc = "idle"
    /\ \E t \in Texts, cs \in 1..MaxChunkSize, ov \in 0..MaxOverlap :
          /\ text' = t
          /\ chunk_size' = cs
          /\ overlap' = ov
          /\ pc' = IF t = <<>> THEN "done" ELSE "loop"
    /\ start' = 0
    /\ chunks' = <<>>
    /\ spans' = <<>>

\* One iteration of the while loop.
chunk_text_loop ==
    /\ pc = "loop"
    /\ start < Len(text)
    /\ Len(chunks) < MaxChunks
    /\ LET end == chunk_text_end(text, chunk_size, start)
       IN  /\ chunks' = Append(chunks, chunk_text_slice(text, start, end))
           /\ spans' = Append(spans, <<start, end>>)
           /\ start' = chunk_text_advance(start, end, overlap)
    /\ UNCHANGED <<text, chunk_size, overlap, pc>>

\* The loop condition fails: return chunks.
chunk_text_return ==
    /\ pc = "loop"
    /\ ~(start < Len(text))
    /\ pc' = "done"
    /\ UNCHANGED <<text, chunk_size, overlap, start, chunks, spans>>

\* ------------------------------------------------------------------ the copies
\* annotator_chunk_text_advance with the maximum taken as a minimum
annotator_chunk_text_advance_min(s, e, ov) ==
    LET s1 == Min(s, e - ov)
    IN  IF s1 >= e THEN e ELSE s1

\* scripts/simple_argument_extractor.py, DocumentChunker.chunk_text
simple_chunk_text_end(t, cs, s) ==
    LET text_length == Len(t)
        end0 == Min(s + cs, text_length)
    IN  IF end0 < text_length
        THEN LET paragraph_break == rfind(t, PARAGRAPH, s, end0)
             IN  IF paragraph_break # -1 /\ paragraph_break > s + (cs \div 2)
                 THEN paragraph_break + 2
                 ELSE LET sentence_break ==
                              Max(rfind(t, SENT_DOT, s, end0),
                                  Max(rfind(t, SENT_BANG, s, end0),
                                      rfind(t, SENT_QUERY, s, end0)))
                      IN  IF sentence_break # -1 /\ sentence_break > s + (cs \div 2)
                          THEN sentence_break + 2
                          ELSE end0
        ELSE end0

simple_chunk_text_advance(s, e, ov) ==
    LET s1 == Max(s, e - ov)
    IN  IF s1 >= e THEN e ELSE s1

simple_chunk_text_loop ==
    /\ copy_pc["simple"] = "loop"
    /\ copy_start["simple"] < Len(text)
    /\ Len(copy_chunks["simple"]) < MaxChunks
    /\ LET s == copy_start["simple"]
           end == simple_chunk_text_end(text, chunk_size, s)
       IN  /\ copy_chunks' = [copy_chunks EXCEPT !["simple"] = Append(@, Slice(text, s, end))]
           /\ copy_spans' = [copy_spans EXCEPT !["simple"] = Append(@, <<s, end>>)]
           /\ copy_start' = [copy_start EXCEPT !["simple"] = simple_chunk_text_advance(s, end, overlap)]
    /\ UNCHANGED copy_pc

simple_chunk_text_return ==
    /\ copy_pc["simple"] = "loop"
    /\ ~(copy_start["simple"] < Len(text))
    /\ copy_pc' = [copy_pc EXCEPT !["simple"] = "done"]
    /\ UNCHANGED <<copy_start, copy_chunks, copy_spans>>

\* scripts/graphrag_argument_extractor.py, DocumentChunker.chunk_text
graphrag_chunk_text_end(t, cs, s) ==
    LET text_length == Len(t)
        end0 == Min(s + cs, text_length)
    IN  IF end0 < text_length
        THEN LET paragraph_break == rfind(t, PARAGRAPH, s, end0)
             IN  IF paragraph_break # -1 /\ paragraph_break > s + (cs \div 2)
                 THEN paragraph_break + 2
                 ELSE LET sentence_break ==
                              Max(rfind(t, SENT_DOT, s, end0),
                                  Max(rfind(t, SENT_BANG, s, end0),
                                      rfind(t, SENT_QUERY, s, end0)))
                      IN  IF sentence_break # -1 /\ sentence_break > s + (cs \div 2)
                          THEN sentence_break + 2
                          ELSE end0
        ELSE end0

graphrag_chunk_text_advance(s, e, ov) ==
    LET s1 == Max(s, e - ov)
    IN  IF s1 >= e THEN e ELSE s1

graphrag_chunk_text_loop ==
    /\ copy_pc["graphrag"] = "loop"
    /\ copy_start["graphrag"] < Len(text)
    /\ Len(copy_chunks["graphrag"]) < MaxChunks
    /\ LET s == copy_start["graphrag"]
           end == graphrag_chunk_text_end(text, chunk_size, s)
       IN  /\ copy_chunks' = [copy_chunks EXCEPT !["graphrag"] = Append(@, Slice(text, s, end))]
           /\ copy_spans' = [copy_spans EXCEPT !["graphrag"] = Append(@, <<s, end>>)]
           /\ copy_start' = [copy_start EXCEPT !["graphrag"] = graphrag_chunk_text_advance(s, end, overlap)]
    /\ UNCHANGED copy_pc

graphrag_chunk_text_return ==
    /\ copy_pc["graphrag"] = "loop"
    /\ ~(copy_start["graphrag"] < Len(text))
    /\ copy_pc' = [copy_pc EXCEPT !["graphrag"] = "done"]
    /\ UNCHANGED <<copy_start, copy_chunks, copy_spans>>

\* scripts/graphrag_argument_annotator.py, ArgumentAnnotator._chunk_text
annotator_chunk_text_end(t, cs, s) ==
    LET text_length == Len(t)
        end0 == Min(s + cs, text_length)
    IN  IF end0 < text_length
        THEN LET paragraph_break == rfind(t, PARAGRAPH, s, end0)
             IN  IF paragraph_break # -1 /\ paragraph_break > s + (cs \div 2)
                 THEN paragraph_break + 2
                 ELSE LET sentence_break ==
                              Max(rfind(t, SENT_DOT, s, end0),
                                  Max(rfind(t, SENT_BANG, s, end0),
                                      rfind(t, SENT_QUERY, s, end0)))
                      IN  IF sentence_break # -1 /\ sentence_break > s + (cs \div 2)
                          THEN sentence_break + 2
                          ELSE end0
        ELSE end0

annotator_chunk_text_advance(s, e, ov) ==
    LET s1 == Max(s, e - ov)
    IN  IF s1 >= e THEN e ELSE s1

annotator_chunk_text_loop ==
    /\ copy_pc["annotator"] = "loop"
    /\ copy_start["annotator"] < Len(text)
    /\ Len(copy_chunks["annotator"]) < MaxChunks
    /\ LET s == copy_start["annotator"]
           end == annotator_chunk_text_end(text, chunk_size, s)
       IN  /\ copy_chunks' = [copy_chunks EXCEPT !["annotator"] = Append(@, Slice(text, s, end))]
           /\ copy_spans' = [copy_spans EXCEPT !["annotator"] = Append(@, <<s, end>>)]
           /\ copy_start' = [copy_start EXCEPT !["annotator"] = annotator_chunk_text_advance(s, end, overlap)]
    /\ UNCHANGED copy_pc

annotator_chunk_text_return ==
    /\ copy_pc["annotator"] = "loop"
    /\ ~(copy_start["annotator"] < Len(text))
    /\ copy_pc' = [copy_pc EXCEPT !["annotator"] = "done"]
    /\ UNCHANGED <<copy_start, copy_chunks, copy_spans>>

\* Texts of at most MaxLen characters holding at most one break mark.
TextsOneBreak ==
    { Put(Plain(n), i, b) : n \in 0..MaxLen, i \in 0..(MaxLen - 2), b \in Breaks \cup {<<>>} }

\* Every copy is called with the same arguments.
compare_call ==
    /\ pc = "idle"
    /\ \E t \in TextsOneBreak, cs \in 1..MaxChunkSize, ov \in 0..MaxOverlap :
          /\ text' = t
          /\ chunk_size' = cs
          /\ overlap' = ov
          /\ pc' = IF t = <<>> THEN "done" ELSE "loop"
          /\ copy_pc' = [c \in Copies |-> IF t = <<>> THEN "done" ELSE "loop"]
    /\ start' = 0
    /\ chunks' = <<>>
    /\ spans' = <<>>
    /\ copy_start' = [c \in Copies |-> 0]
    /\ copy_chunks' = [c \in Copies |-> <<>>]
    /\ copy_spans' = [c \in Copies |-> <<>>]

\* The copies are stepped in turn: a copy steps when no running copy has taken
\* fewer steps, the earlier copy first among equals.
Order == [pdf |-> 0, simple |-> 1, graphrag |-> 2, annotator |-> 3]
PcOf(c) == IF c = "pdf" THEN pc ELSE copy_pc[c]
StepsOf(c) == IF c = "pdf" THEN Len(spans) ELSE Len(copy_spans[c])
MayStep(c) ==
    \A d \in (Copies \cup {"pdf"}) \ {c} :
        PcOf(d) = "loop" =>
            \/ StepsOf(c) < StepsOf(d)
            \/ StepsOf(c) = StepsOf(d) /\ Order[c] < Order[d]

CopiesInit ==
    /\ copy_pc = [c \in Copies |-> "idle"]
    /\ copy_start = [c \in Copies |-> 0]
    /\ copy_chunks = [c \in Copies |-> <<>>]
    /\ copy_spans = [c \in Copies |-> <<>>]

\* ------------------------------------------------------------------ config.neptune_config
\* Python's None, also the value of an unset environment variable
None == "None"

EnvVars == {"NEPTUNE_ENDPOINT", "NEPTUNE_PORT", "NEPTUNE_AUTH_MODE"}

\* The values the environment gives to each variable.
EnvValues ==
    [NEPTUNE_ENDPOINT |-> {"", "test-endpoint"},
     NEPTUNE_PORT |-> {"9999"},
     NEPTUNE_AUTH_MODE |-> {"IAM", "iam", "DEFAULT"}]

NoEnv == [v \in EnvVars |-> None]

\* The .env files: none (or an empty one), or one that names an endpoint.
DotenvFiles == {NoEnv, [NoEnv EXCEPT !["NEPTUNE_ENDPOINT"] = "dotenv-endpoint"]}

\* str.upper() on the auth modes
upper(str) ==
    CASE str = "iam" -> "IAM"
      [] str = "Iam" -> "IAM"
      [] str = "default" -> "DEFAULT"
      [] OTHER -> str

\* os.getenv(name, default)
getenv(e, name, default) == IF e[name] # None THEN e[name] ELSE default

\* load_dotenv(): every variable of the .env file that the environment does not
\* set is added to it.
load_dotenv(e, f) == [v \in EnvVars |-> IF e[v] # None THEN e[v] ELSE f[v]]

\* the default of NEPTUNE_PORT
DEFAULT_PORT == "8182"
\* the default of NEPTUNE_AUTH_MODE
DEFAULT_AUTH_MODE == "IAM"

\* get_neptune_connection_string comparing the auth mode as it is written
get_neptune_connection_string_case_sensitive(endpoint, port, auth_mode) ==
    IF endpoint = None \/ endpoint = ""
    THEN [kind |-> "raise", value |-> "ValueError"]
    ELSE IF auth_mode = "IAM"
         THEN [kind |-> "return", value |-> "wss://" \o endpoint \o ":" \o port \o "/gremlin"]
         ELSE [kind |-> "return", value |-> "ws://" \o endpoint \o ":" \o port \o "/gremlin"]

\* get_neptune_connection_string testing the endpoint against None only
get_neptune_connection_string_none_only(endpoint, port, auth_mode) ==
    IF endpoint = None
    THEN [kind |-> "raise", value |-> "ValueError"]
    ELSE IF upper(auth_mode) = "IAM"
         THEN [kind |-> "return", value |-> "wss://" \o endpoint \o ":" \o port \o "/gremlin"]
         ELSE [kind |-> "return", value |-> "ws://" \o endpoint \o ":" \o port \o "/gremlin"]

\* The body of get_neptune_connection_string(), over the module's globals.
get_neptune_connection_string(endpoint, port, auth_mode) ==
    IF endpoint = None \/ endpoint = ""
    THEN [kind |-> "raise", value |-> "ValueError"]
    ELSE IF upper(auth_mode) = "IAM"
         THEN [kind |-> "return", value |-> "wss://" \o endpoint \o ":" \o port \o "/gremlin"]
         ELSE [kind |-> "return", value |-> "ws://" \o endpoint \o ":" \o port \o "/gremlin"]

\* The module body: load_dotenv(), then the globals are read from os.environ.
module_exec ==
    LET e == load_dotenv(environ, dotenv_file)
    IN  /\ environ' = e
        /\ exec_environ' = e
        /\ NEPTUNE_ENDPOINT' = getenv(e, "NEPTUNE_ENDPOINT", None)
        /\ NEPTUNE_PORT' = getenv(e, "NEPTUNE_PORT", DEFAULT_PORT)
        /\ NEPTUNE_AUTH_MODE' = getenv(e, "NEPTUNE_AUTH_MODE", DEFAULT_AUTH_MODE)
        /\ cfg_loaded' = TRUE

\* os.environ[name] = value (the tests' patch.dict)
setenv(name, value) ==
    /\ environ[name] # value
    /\ environ' = [environ EXCEPT ![name] = value]
    /\ import_fresh' = FALSE
    /\ UNCHANGED <<dotenv_file, cfg_loaded, NEPTUNE_ENDPOINT, NEPTUNE_PORT,
                   NEPTUNE_AUTH_MODE, exec_environ, conn_result>>

\* del os.environ[name] (the tests' patch.dict on exit, os.environ.clear())
delenv(name) ==
    /\ environ[name] # None
    /\ environ' = [environ EXCEPT ![name] = None]
    /\ import_fresh' = FALSE
    /\ UNCHANGED <<dotenv_file, cfg_loaded, NEPTUNE_ENDPOINT, NEPTUNE_PORT,
                   NEPTUNE_AUTH_MODE, exec_environ, conn_result>>

\* The .env file is written or removed.
write_dotenv(f) ==
    /\ dotenv_file # f
    /\ dotenv_file' = f
    /\ import_fresh' = FALSE
    /\ UNCHANGED <<environ, cfg_loaded, NEPTUNE_ENDPOINT, NEPTUNE_PORT,
                   NEPTUNE_AUTH_MODE, exec_environ, conn_result>>

\* `from config.neptune_config import ...`: the module body runs on the first
\* import only; later imports find the module in sys.modules.
import_config ==
    /\ IF cfg_loaded
       THEN UNCHANGED <<environ, cfg_loaded, NEPTUNE_ENDPOINT, NEPTUNE_PORT,
                        NEPTUNE_AUTH_MODE, exec_environ>>
       ELSE module_exec
    /\ import_fresh' = TRUE
    /\ UNCHANGED <<dotenv_file, conn_result>>

\* importlib.reload(sys.modules['config.neptune_config']) (the tests' tearDown)
reload_config ==
    /\ cfg_loaded
    /\ module_exec
    /\ import_fresh' = TRUE
    /\ UNCHANGED <<dotenv_file, conn_result>>

\* A call of get_neptune_connection_string() by a caller that imported it.
get_neptune_connection_string_call ==
    /\ cfg_loaded
    /\ conn_result' =
           get_neptune_connection_string(NEPTUNE_ENDPOINT, NEPTUNE_PORT, NEPTUNE_AUTH_MODE)
    /\ UNCHANGED <<environ, dotenv_file, cfg_loaded, NEPTUNE_ENDPOINT, NEPTUNE_PORT,
                   NEPTUNE_AUTH_MODE, exec_environ, import_fresh>>

ConfigInit ==
    /\ environ = NoEnv
    /\ dotenv_file = NoEnv
    /\ cfg_loaded = FALSE
    /\ NEPTUNE_ENDPOINT = None
    /\ NEPTUNE_PORT = None
    /\ NEPTUNE_AUTH_MODE = None
    /\ exec_environ = NoEnv
    /\ import_fresh = FALSE
    /\ conn_result = [kind |-> "none", value |-> ""]

\* ------------------------------------------------------------------ src/memory/evidence.py
EVIDENCE_LABEL == "Evidence"

\* self._vector_store = None
NoStore == 0

\* The Evidence objects handed to the store: Evidence(content, source,
\* evidence_id=...), metadata left to its default {}.
Evidence1 ==
    [content |-> "Content 1", source |-> "Source 1", metadata |-> <<>>,
     evidence_id |-> "evidence-1"]
Evidence2 ==
    [content |-> "Content 2", source |-> "Source 2", metadata |-> <<>>,
     evidence_id |-> "evidence-2"]
Evidences == {Evidence1, Evidence2}

Embeddings == {<<1, 2, 3>>}

\* Evidence.to_dict
to_dict(evidence) ==
    [id |-> evidence.evidence_id,
     content |-> evidence.content,
     source |-> evidence.source,
     metadata |-> evidence.metadata,
     label |-> EVIDENCE_LABEL]

\* dict.get(key, default)
get(d, key, default) == IF key \in DOMAIN d THEN d[key] ELSE default

\* The empty dict {} and the empty string.
EmptyDict == <<>>
EmptyStr == ""

\* Values str(uuid.uuid4()) may return.
UUIDs == {"1b4e28ba-2fa1-41d2-883f-0016d3cca427", "6fa459ea-ee8a-4ca4-894e-db77e160355e"}

\* Evidence.__init__ with every id replaced by a generated one.
Evidence_init_always_generated(content, source, metadata, evidence_id, uuid4) ==
    [content |-> content,
     source |-> source,
     metadata |-> IF metadata = <<>> THEN EmptyDict ELSE metadata[1],
     evidence_id |-> "evidence-" \o uuid4]

\* Evidence.__init__(content, source, metadata=None, evidence_id=None), given
\* the value uuid4 that uuid.uuid4() returns if it is called. The metadata
\* argument is <<>> for None and <<d>> for a dict d; evidence_id is None or a
\* string. `x or y` is y when x is None, an empty dict or an empty string.
Evidence_init(content, source, metadata, evidence_id, uuid4) ==
    [content |-> content,
     source |-> source,
     metadata |-> IF metadata = <<>> \/ DOMAIN metadata[1] = {}
                  THEN EmptyDict
                  ELSE metadata[1],
     evidence_id |-> IF evidence_id = None \/ evidence_id = EmptyStr
                     THEN "evidence-" \o uuid4
                     ELSE evidence_id]

\* The property without its `is None` test: a store is built on every access.
store_property_eager(field, ctor_calls) ==
    [field |-> ctor_calls + 1, ctor_calls |-> ctor_calls + 1, value |-> ctor_calls + 1]

\* The vector_store / graph_store property: `if self._x is None: self._x =
\* Store(...)`, then `return self._x`. The n-th call of the constructor returns
\* instance n.
store_property(field, ctor_calls) ==
    IF field = NoStore
    THEN [field |-> ctor_calls + 1, ctor_calls |-> ctor_calls + 1, value |-> ctor_calls + 1]
    ELSE [field |-> field, ctor_calls |-> ctor_calls, value |-> field]

\* The vertex graph_store.add_vertex(label=..., properties=...) writes.
add_vertex(label, properties) == [label |-> label, properties |-> properties]

\* One call made on a store, as the store sees it.
StoreCall(op, store, id, vector, payload, label, top_k, outcome, returned) ==
    [op |-> op, store |-> store, id |-> id, vector |-> vector, payload |-> payload,
     label |-> label, top_k |-> top_k, outcome |-> outcome, returned |-> returned]

NoCall == [op |-> "none", args |-> <<>>, kind |-> "none", value |-> <<>>, log_start |-> 0]

\* EvidenceStore.__init__: the connection is opened with the string
\* get_neptune_connection_string() returns (its ValueError propagates), and
\* both store fields are set to None.
EvidenceStore_init ==
    /\ cfg_loaded
    /\ ~es_created
    /\ LET r == get_neptune_connection_string(NEPTUNE_ENDPOINT, NEPTUNE_PORT, NEPTUNE_AUTH_MODE)
       IN  IF r.kind = "return"
           THEN /\ es_created' = TRUE
                /\ es_connection' = r.value
                /\ es_call' = [NoCall EXCEPT !.op = "__init__", !.kind = "return"]
           ELSE /\ es_call' = [NoCall EXCEPT !.op = "__init__", !.kind = "raise",
                                              !.value = r.value]
                /\ UNCHANGED <<es_created, es_connection>>
    /\ _vector_store' = NoStore
    /\ _graph_store' = NoStore
    /\ UNCHANGED <<vector_ctor_calls, graph_ctor_calls, vector_returned, graph_returned,
                   store_log, g_vertices>>

\* A read of evidence_store.vector_store from outside the class.
vector_store_access ==
    /\ es_created
    /\ vector_ctor_calls < MaxStoreCalls
    /\ LET p == store_property(_vector_store, vector_ctor_calls)
       IN  /\ _vector_store' = p.field
           /\ vector_ctor_calls' = p.ctor_calls
           /\ vector_returned' = vector_returned \cup {p.value}
    /\ UNCHANGED <<es_created, es_connection, _graph_store, graph_ctor_calls,
                   graph_returned, store_log, es_call, g_vertices>>

\* A read of evidence_store.graph_store from outside the class.
graph_store_access ==
    /\ es_created
    /\ graph_ctor_calls < MaxStoreCalls
    /\ LET p == store_property(_graph_store, graph_ctor_calls)
       IN  /\ _graph_store' = p.field
           /\ graph_ctor_calls' = p.ctor_calls
           /\ graph_returned' = graph_returned \cup {p.value}
    /\ UNCHANGED <<es_created, es_connection, _vector_store, vector_ctor_calls,
                   vector_returned, store_log, es_call, g_vertices>>

\* add_evidence with the value add_vector returned discarded for the evidence's
\* own id
add_evidence_result_own_id(evidence, vector_id) == evidence.evidence_id

\* add_evidence: `return vector_id`
add_evidence_result(evidence, vector_id) == vector_id

\* add_evidence writing to the graph store before the vector store
add_evidence_calls_graph_first(evidence, embedding, vs, gs, vector_id, graph_outcome) ==
    <<StoreCall("add_vertex", gs, "", <<>>, to_dict(evidence), EVIDENCE_LABEL, 0,
                graph_outcome, ""),
      StoreCall("add_vector", vs, evidence.evidence_id, embedding, to_dict(evidence), "", 0,
                "return", vector_id)>>

\* add_evidence: the two store calls of a run in which add_vector returned
\* vector_id, in the order they are made.
add_evidence_calls(evidence, embedding, vs, gs, vector_id, graph_outcome) ==
    <<StoreCall("add_vector", vs, evidence.evidence_id, embedding, to_dict(evidence), "", 0,
                "return", vector_id),
      StoreCall("add_vertex", gs, "", <<>>, to_dict(evidence), EVIDENCE_LABEL, 0,
                graph_outcome, "")>>

\* EvidenceStore.add_evidence(evidence, embedding). The vector store returns
\* an id of its choosing or raises; the graph store returns or raises; an
\* exception of either propagates to the caller.
add_evidence ==
    /\ es_created
    /\ Len(store_log) + 2 <= MaxStoreCalls
    /\ \E evidence \in Evidences, embedding \in Embeddings,
          vector_outcome \in {"return", "raise"}, graph_outcome \in {"return", "raise"} :
          \E vector_id \in {evidence.evidence_id, "vector-7"} :
          LET vp == store_property(_vector_store, vector_ctor_calls)
              gp == store_property(_graph_store, graph_ctor_calls)
              args == <<evidence, embedding>>
          IN  /\ _vector_store' = vp.field
              /\ vector_ctor_calls' = vp.ctor_calls
              /\ vector_returned' = vector_returned \cup {vp.value}
              /\ IF vector_outcome = "raise"
                 THEN /\ vector_id = "vector-7"
                      /\ graph_outcome = "return"
                      /\ store_log' = Append(store_log,
                             StoreCall("add_vector", vp.value, evidence.evidence_id, embedding,
                                       to_dict(evidence), "", 0, "raise", ""))
                      /\ es_call' = [op |-> "add_evidence", args |-> args, kind |-> "raise",
                                     value |-> "add_vector", log_start |-> Len(store_log)]
                      /\ UNCHANGED <<_graph_store, graph_ctor_calls, graph_returned,
                                     g_vertices>>
                 ELSE /\ _graph_store' = gp.field
                      /\ graph_ctor_calls' = gp.ctor_calls
                      /\ graph_returned' = graph_returned \cup {gp.value}
                      /\ store_log' = store_log \o
                             add_evidence_calls(evidence, embedding, vp.value, gp.value,
                                                vector_id, graph_outcome)
                      /\ g_vertices' =
                             IF graph_outcome = "return"
                             THEN g_vertices \cup {add_vertex(EVIDENCE_LABEL, to_dict(evidence))}
                             ELSE g_vertices
                      /\ es_call' =
                             IF graph_outcome = "raise"
                             THEN [op |-> "add_evidence", args |-> args, kind |-> "raise",
                                   value |-> "add_vertex", log_start |-> Len(store_log)]
                             ELSE [op |-> "add_evidence", args |-> args, kind |-> "return",
                                   value |-> add_evidence_result(evidence, vector_id),
                                   log_start |-> Len(store_log)]
    /\ UNCHANGED <<es_created, es_connection>>

\* What search_vectors may return: no result, one result whose metadata has
\* neither id nor source, or two results, each with the payload of an
\* evidence as its metadata.
SearchResults ==
    { <<>>,
      <<[metadata |-> [content |-> "Content 3"]]>>,
      <<[metadata |-> to_dict(Evidence2)], [metadata |-> to_dict(Evidence1)]>> }

\* The values of top_k the callers pass: the tests' 2 and the default 5.
TopKs == {2, 5}

\* The list built back to front.
evidence_list_reversed(results, uuid4s) ==
    [i \in DOMAIN results |->
        LET metadata == get(results[Len(results) + 1 - i], "metadata", EmptyDict)
        IN  Evidence_init(get(metadata, "content", EmptyStr),
                          get(metadata, "source", EmptyStr),
                          <<get(metadata, "metadata", EmptyDict)>>,
                          get(metadata, "id", None),
                          uuid4s[i])]

\* One Evidence per result, built from the result's metadata; uuid4s[i] is
\* the value uuid.uuid4() returns if the i-th construction calls it.
evidence_list(results, uuid4s) ==
    [i \in DOMAIN results |->
        LET metadata == get(results[i], "metadata", EmptyDict)
        IN  Evidence_init(get(metadata, "content", EmptyStr),
                          get(metadata, "source", EmptyStr),
                          <<get(metadata, "metadata", EmptyDict)>>,
                          get(metadata, "id", None),
                          uuid4s[i])]

\* EvidenceStore.search_similar_evidence(query_embedding, top_k)
search_similar_evidence ==
    /\ es_created
    /\ Len(store_log) + 1 <= MaxStoreCalls
    /\ \E query_embedding \in Embeddings, top_k \in TopKs, results \in SearchResults :
          \E uuid4s \in [DOMAIN results -> UUIDs] :
          LET vp == store_property(_vector_store, vector_ctor_calls)
          IN  /\ _vector_store' = vp.field
              /\ vector_ctor_calls' = vp.ctor_calls
              /\ vector_returned' = vector_returned \cup {vp.value}
              /\ store_log' = Append(store_log,
                     StoreCall("search_vectors", vp.value, "", query_embedding, <<>>, "",
                               top_k, "return", results))
              /\ es_call' = [op |-> "search_similar_evidence",
                             args |-> <<query_embedding, top_k>>, kind |-> "return",
                             value |-> evidence_list(results, uuid4s), log_start |-> Len(store_log)]
    /\ UNCHANGED <<es_created, es_connection, _graph_store, graph_ctor_calls, graph_returned,
                   g_vertices>>

\* scripts/create_hyperibis_schema.py: the example Argument and Evidence
\* vertices the schema script leaves in the graph, with the properties
\* get_evidence reads.
ArgumentExample ==
    [label |-> "Argument",
     properties |-> [id |-> "argument-example",
                     warrant |-> "HyperIBIS extends IBIS with belief and utility"]]
EvidenceExample ==
    [label |-> EVIDENCE_LABEL,
     properties |-> [id |-> "evidence-example",
                     source |-> "HyperIBIS Documentation",
                     content |-> "HyperIBIS extends the standard IBIS model"]]

\* valueMap(True) of a vertex as the traversal returns it: the id as it is,
\* every other property as a one-element list.
valueMap(v) ==
    [k \in DOMAIN v.properties |->
        IF k = "id" THEN v.properties[k] ELSE <<v.properties[k]>>]

\* The traversal without its hasLabel step.
get_evidence_matches_any_label(vertices, evidence_id) ==
    {v \in vertices : v.properties.id = evidence_id}

\* g.V().hasLabel(EVIDENCE_LABEL).has('id', evidence_id): the vertices found.
get_evidence_matches(vertices, evidence_id) ==
    {v \in vertices : v.label = EVIDENCE_LABEL /\ v.properties.id = evidence_id}

\* The Evidence get_evidence builds from result[0].
get_evidence_result(properties, uuid4) ==
    Evidence_init(get(properties, "content", <<EmptyStr>>)[1],
                  get(properties, "source", <<EmptyStr>>)[1],
                  <<get(properties, "metadata", <<EmptyDict>>)[1]>>,
                  get(properties, "id", None),
                  uuid4)

\* The ids get_evidence is asked for.
RequestedIds == {"evidence-1", "evidence-2", "evidence-example", "argument-example"}

\* EvidenceStore.get_evidence(evidence_id). toList() puts the vertices found
\* in an order of the server's choosing; the value is <<>> for None and <<e>>
\* for an Evidence e.
get_evidence ==
    /\ es_created
    /\ \E evidence_id \in RequestedIds, uuid4 \in UUIDs :
          LET result == get_evidence_matches(g_vertices, evidence_id)
              call == [op |-> "get_evidence", args |-> <<evidence_id>>, kind |-> "return",
                       value |-> <<>>, log_start |-> Len(store_log)]
          IN  IF result = {}
              THEN es_call' = call
              ELSE \E first \in result :
                      es_call' = [call EXCEPT
                                     !.value = <<get_evidence_result(valueMap(first), uuid4)>>]
    /\ UNCHANGED <<es_created, es_connection, _vector_store, _graph_store,
                   vector_ctor_calls, graph_ctor_calls, vector_returned, graph_returned,
                   store_log, g_vertices>>

EvidenceInit ==
    /\ es_created = FALSE
    /\ es_connection = None
    /\ _vector_store = NoStore
    /\ _graph_store = NoStore
    /\ vector_ctor_calls = 0
    /\ graph_ctor_calls = 0
    /\ vector_returned = {}
    /\ graph_returned = {}
    /\ store_log = <<>>
    /\ es_call = NoCall
    /\ g_vertices = {ArgumentExample, EvidenceExample}

\* ------------------------------------------------------------------ Evidence objects
Contents == {"Test content", EmptyStr}
Sources == {"Test source", EmptyStr}
Metadatas == {<<>>, <<EmptyDict>>, <<[key |-> "value"]>>}
EvidenceIdArgs == {None, EmptyStr, "test-id-123"}

\* evidence = Evidence(content, source, metadata, evidence_id)
Evidence_new ==
    \E content \in Contents, source \in Sources, metadata \in Metadatas,
       evidence_id \in EvidenceIdArgs, uuid4 \in UUIDs :
        /\ obj_args' = [content |-> content, source |-> source, metadata |-> metadata,
                        evidence_id |-> evidence_id]
        /\ obj' = <<Evidence_init(content, source, metadata, evidence_id, uuid4)>>
        /\ obj_dict' = <<>>

\* evidence_dict = evidence.to_dict()
Evidence_to_dict ==
    /\ obj # <<>>
    /\ obj_dict' = <<to_dict(obj[1])>>
    /\ UNCHANGED <<obj_args, obj>>

ObjectInit ==
    /\ obj_args = <<>>
    /\ obj = <<>>
    /\ obj_dict = <<>>

\* ------------------------------------------------------------------ _extract_json
\* The characters of a response: the brackets and braces of JSON, the comma,
\* white space, and "x" for any character of prose.
ResponseChars == {"[", "]", "{", "}", ",", " ", "x"}

RECURSIVE StringsUpTo(_)
StringsUpTo(n) ==
    IF n = 0 THEN {<<>>}
    ELSE LET shorter == StringsUpTo(n - 1)
         IN  shorter \cup {Append(t, c) : t \in {u \in shorter : Len(u) = n - 1},
                                            c \in ResponseChars}

\* The responses of the model: None (<<>>) and every string up to the bound.
Responses == {<<>>} \cup {<<t>> : t \in StringsUpTo(MaxResponseLen)}

\* Python values: a dict (only {} can be written with ResponseChars) and a list.
PyDict == [type |-> "dict", items |-> <<>>]
PyList(items) == [type |-> "list", items |-> items]

JsonReturn(value) == [kind |-> "return", value |-> value]
JSONDecodeError == [kind |-> "raise", value |-> PyList(<<>>)]

\* The first index at or after i (0-based) that holds no white space.
RECURSIVE skip_ws(_, _)
skip_ws(s, i) == IF i < Len(s) /\ s[i + 1] = " " THEN skip_ws(s, i + 1) ELSE i

ScanFail == [ok |-> FALSE, value |-> PyList(<<>>), end |-> 0]

\* The JSON decoder on the value that starts at index i (0-based): whether
\* there is one, what it is, and the index after it.
RECURSIVE scan_value(_, _)
RECURSIVE scan_array_items(_, _, _)
scan_value(s, i) ==
    IF i >= Len(s) THEN ScanFail
    ELSE IF s[i + 1] = "{"
    THEN LET j == skip_ws(s, i + 1)
         IN  IF j < Len(s) /\ s[j + 1] = "}"
             THEN [ok |-> TRUE, value |-> PyDict, end |-> j + 1]
             ELSE ScanFail
    ELSE IF s[i + 1] = "["
    THEN LET j == skip_ws(s, i + 1)
         IN  IF j < Len(s) /\ s[j + 1] = "]"
             THEN [ok |-> TRUE, value |-> PyList(<<>>), end |-> j + 1]
             ELSE scan_array_items(s, j, <<>>)
    ELSE ScanFail

scan_array_items(s, i, items) ==
    LET v == scan_value(s, i)
        j == skip_ws(s, v.end)
    IN  IF ~v.ok \/ j >= Len(s) THEN ScanFail
        ELSE IF s[j + 1] = "]"
        THEN [ok |-> TRUE, value |-> PyList(Append(items, v.value)), end |-> j + 1]
        ELSE IF s[j + 1] = ","
        THEN scan_array_items(s, skip_ws(s, j + 1), Append(items, v.value))
        ELSE ScanFail

\* json.loads(s): the value of the whole of s, white space around it allowed.
json_loads(s) ==
    LET v == scan_value(s, skip_ws(s, 0))
    IN  IF v.ok /\ skip_ws(s, v.end) = Len(s) THEN JsonReturn(v.value) ELSE JSONDecodeError

\* The match of r'\[\s*\{.*\}\s*\]' that starts at the "[" at index i (1-based),
\* as <<first, last>>, or <<>>: white space, "{", then as much as possible up
\* to a "}" that white space and "]" follow.
array_match_at(s, i) ==
    LET p == skip_ws(s, i) + 1
        ends == {k \in (p + 2)..Len(s) :
                    /\ s[k] = "]"
                    /\ \E q \in (p + 1)..(k - 1) :
                          /\ s[q] = "}"
                          /\ \A w \in (q + 1)..(k - 1) : s[w] = " "}
    IN  IF p <= Len(s) /\ s[p] = "{" /\ ends # {}
        THEN <<i, CHOOSE k \in ends : \A k2 \in ends : k2 <= k>>
        ELSE <<>>

\* re.search(r'\[\s*\{.*\}\s*\]', s, re.DOTALL): the leftmost match.
search_array(s) ==
    LET starts == {i \in 1..Len(s) : s[i] = "[" /\ array_match_at(s, i) # <<>>}
    IN  IF starts = {} THEN <<>>
        ELSE array_match_at(s, CHOOSE i \in starts : \A i2 \in starts : i <= i2)

\* re.search(r'\{.*\}', s, re.DOTALL): from the first "{" to the last "}".
search_object(s) ==
    LET opens == {i \in 1..Len(s) : s[i] = "{"}
        closes == {i \in 1..Len(s) : s[i] = "}"}
        first == CHOOSE i \in opens : \A i2 \in opens : i <= i2
        last == CHOOSE i \in closes : \A i2 \in closes : i2 <= i
    IN  IF opens # {} /\ closes # {} /\ first < last THEN <<first, last>> ELSE <<>>

\* The body of the try block.
_extract_json_try(s) ==
    LET array == search_array(s)
        object == search_object(s)
    IN  IF array # <<>>
        THEN json_loads(SubSeq(s, array[1], array[2]))
        ELSE IF object # <<>>
        THEN json_loads(<<"[">> \o SubSeq(s, object[1], object[2]) \o <<"]">>)
        ELSE JsonReturn(PyList(<<>>))

\* _extract_json without its except clause.
_extract_json_except_missing(outcome) == outcome

\* except Exception: ... return []
_extract_json_except(outcome) ==
    IF outcome.kind = "raise" THEN JsonReturn(PyList(<<>>)) ELSE outcome

\* BedrockClient._extract_json(response)
_extract_json(response) ==
    IF response = <<>> \/ response[1] = <<>>
    THEN JsonReturn(PyList(<<>>))
    ELSE _extract_json_except(_extract_json_try(response[1]))

NoJsonCall == [kind |-> "none", value |-> PyList(<<>>)]

\* The call of _extract_json on a response of the model.
_extract_json_call ==
    /\ ej_result = NoJsonCall
    /\ \E response \in Responses :
          /\ ej_response' = response
          /\ ej_result' = _extract_json(response)

JsonInit ==
    /\ ej_response = <<>>
    /\ ej_result = NoJsonCall

\* ------------------------------------------------------------------ BedrockClient, process_document
\* The defaults of DocumentChunker.chunk_text(text, chunk_size=3000, overlap=200).
DEFAULT_CHUNK_SIZE == 3000
DEFAULT_OVERLAP == 200

\* What self.client.invoke_model(...) does: it raises, or it returns a body
\* whose text is a JSON array of the given objects.
InvokeRaise == [kind |-> "raise", objects |-> <<>>]
InvokeText(objects) == [kind |-> "return", objects |-> objects]

\* The objects a model answers with, by the kind of the prompt.
Answers ==
    [issues |-> <<[question |-> "Q1"], [question |-> "Q2"]>>,
     positions |-> <<[answer |-> "A1"]>>,
     supporting |-> <<[warrant |-> "W1", evidence |-> "E1"]>>,
     rebutting |-> <<[warrant |-> "W2"]>>]

PromptKinds == {"issues", "positions", "supporting", "rebutting"}

\* BedrockClient._invoke_model(prompt): the text of the response, or None
\* (<<>>) when anything in the try block raised.
_invoke_model(outcome) ==
    IF outcome.kind = "raise" THEN <<>> ELSE <<outcome.objects>>

\* extract_issues / extract_positions / extract_arguments:
\* `response = self._invoke_model(...)`, `return self._extract_json(response)`.
\* _extract_json returns the array a well-formed response consists of.
extract(outcome) ==
    LET response == _invoke_model(outcome)
    IN  IF response = <<>> THEN _extract_json(response).value.items ELSE response[1]

\* A direct call of one of the extract_* methods of a BedrockClient.
extract_call ==
    \E kind \in PromptKinds, objects \in {<<>>} \cup {Answers[k] : k \in PromptKinds},
       raises \in BOOLEAN :
        LET outcome == IF raises THEN InvokeRaise ELSE InvokeText(objects)
        IN  bc_call' = [op |-> kind, invoke |-> outcome, kind |-> "return",
                        value |-> extract(outcome)]

NoBedrockCall == [op |-> "none", invoke |-> InvokeRaise, kind |-> "none", value |-> <<>>]

\* ArgumentModel()
ArgumentModel_init == [issues |-> <<>>, positions |-> <<>>, arguments |-> <<>>, evidence |-> <<>>]

\* The n-th invoke_model call of a run in which call number fail_at raises.
invoke_outcome(n, kind, fail_at) ==
    IF n = fail_at THEN InvokeRaise ELSE InvokeText(Answers[kind])

\* `for k, arg in enumerate(args)`: add_argument and, when the argument has
\* evidence, add_evidence. tag is "sup" or "reb".
RECURSIVE add_arguments(_, _, _, _, _, _)
add_arguments(model, args, k, i, j, tag) ==
    IF k > Len(args) THEN model
    ELSE LET arg == args[k]
             suffix == ToString(i) \o "_" \o ToString(j) \o "_" \o tag \o ToString(k)
             with_argument ==
                 [model EXCEPT !.arguments =
                     Append(@, [id |-> "arg" \o suffix,
                                position_id |-> "position" \o ToString(i) \o "_" \o ToString(j),
                                warrant |-> arg.warrant,
                                is_supporting |-> (tag = "sup")])]
             with_evidence ==
                 IF "evidence" \in DOMAIN arg
                 THEN [with_argument EXCEPT !.evidence =
                          Append(@, [id |-> "evidence" \o suffix,
                                     argument_id |-> "arg" \o suffix,
                                     content |-> arg.evidence,
                                     source |-> "Chunk 1"])]
                 ELSE with_argument
         IN  add_arguments(with_evidence, args, k + 1, i, j, tag)

\* `for j, position in enumerate(positions)`: add_position, then the
\* supporting and the rebutting arguments. run is [model, calls], calls the
\* number of invoke_model calls made so far.
RECURSIVE position_loop(_, _, _, _, _)
position_loop(run, positions, j, i, fail_at) ==
    IF j > Len(positions) THEN run
    ELSE LET with_position ==
                 [run.model EXCEPT !.positions =
                     Append(@, [id |-> "position" \o ToString(i) \o "_" \o ToString(j),
                                issue_id |-> "issue" \o ToString(i),
                                answer |-> positions[j].answer,
                                description |-> get(positions[j], "description", None)])]
             supporting_args == extract(invoke_outcome(run.calls + 1, "supporting", fail_at))
             with_supporting == add_arguments(with_position, supporting_args, 1, i, j, "sup")
             rebutting_args == extract(invoke_outcome(run.calls + 2, "rebutting", fail_at))
             with_rebutting == add_arguments(with_supporting, rebutting_args, 1, i, j, "reb")
         IN  position_loop([model |-> with_rebutting, calls |-> run.calls + 2],
                           positions, j + 1, i, fail_at)

\* `for i, issue in enumerate(issues)`: add_issue, extract_positions, and the
\* loop over the positions.
RECURSIVE issue_loop(_, _, _, _)
issue_loop(run, issues, i, fail_at) ==
    IF i > Len(issues) THEN run
    ELSE LET with_issue ==
                 [run.model EXCEPT !.issues =
                     Append(@, [id |-> "issue" \o ToString(i),
                                question |-> issues[i].question,
                                issue_type |-> get(issues[i], "issue_type", "regular"),
                                description |-> get(issues[i], "description", None)])]
             positions == extract(invoke_outcome(run.calls + 1, "positions", fail_at))
         IN  issue_loop(position_loop([model |-> with_issue, calls |-> run.calls + 1],
                                      positions, 1, i, fail_at),
                        issues, i + 1, fail_at)

\* DocumentChunker.chunk_text(content) as process_document calls it, in a
\* memory that holds at most MaxChunks chunks: the list of chunks, or the
\* MemoryError of the append that no longer fits.
RECURSIVE chunk_text_run(_, _, _, _, _)
chunk_text_run(t, cs, ov, s, done) ==
    IF ~(s < Len(t)) THEN [kind |-> "return", value |-> done]
    ELSE IF Len(done) >= MaxChunks THEN [kind |-> "raise", value |-> <<>>]
    ELSE LET end == simple_chunk_text_end(t, cs, s)
         IN  chunk_text_run(t, cs, ov, simple_chunk_text_advance(s, end, ov),
                            Append(done, Slice(t, s, end)))

PdRaise(error) == [kind |-> "raise", error |-> error, arguments |-> ArgumentModel_init]

\* process_document(file_path) on a file with the given content, in a run
\* whose invoke_model call number fail_at raises (none, when fail_at is 0).
process_document(content, fail_at) ==
    IF content = <<>> THEN PdRaise("ValueError")
    ELSE LET chunked == chunk_text_run(content, DEFAULT_CHUNK_SIZE, DEFAULT_OVERLAP, 0, <<>>)
         IN  IF chunked.kind = "raise" THEN PdRaise("MemoryError")
             ELSE LET first_chunk == chunked.value[1]
                      issues == extract(invoke_outcome(1, "issues", fail_at))
                      run == issue_loop([model |-> ArgumentModel_init, calls |-> 1],
                                        issues, 1, fail_at)
                  IN  [kind |-> "return", error |-> "", arguments |-> run.model]

\* The documents process_document is given: an unreadable or empty file, a
\* one-character text, and texts of MaxLen characters without and with a
\* sentence break.
Documents == {Plain(0), Plain(1), Plain(MaxLen), Put(Plain(MaxLen), 1, SENT_DOT)}

\* The number of invoke_model calls of a run in which none fails.
AllCalls == 1 + Len(Answers.issues) * (1 + 2 * Len(Answers.positions))

process_document_call ==
    \E content \in Documents, fail_at \in 0..AllCalls :
        pd_call' = [content |-> content, fail_at |-> fail_at,
                    outcome |-> process_document(content, fail_at)]

NoPdCall == [content |-> <<>>, fail_at |-> 0, outcome |-> [kind |-> "none", error |-> "",
                                                            arguments |-> ArgumentModel_init]]

PipelineInit ==
    /\ bc_call = NoBedrockCall
    /\ pd_call = NoPdCall

\* ------------------------------------------------------------------ NeptuneAnalyticsAdapter
GRAPH_ID_VAR == "NEPTUNE_ANALYTICS_GRAPH_ID"
REGION_VAR == "NEPTUNE_ANALYTICS_REGION"
DEFAULT_REGION == "us-west-2"
SCHEME == "neptune-graph://"

\* What the environment variables, and the arguments, may hold.
GraphIdEnvValues == {None, EmptyStr, "g-env"}
RegionEnvValues == {None, "us-east-1"}
GraphIdArgs == {None, EmptyStr, "g-arg"}
RegionArgs == {None, "eu-west-1"}
ConnectionStringArgs == {None, EmptyStr, "neptune-graph://g-conn"}

\* `not x` for x a string or None
falsy(x) == x = None \/ x = EmptyStr

\* `a or b` for a a string or None
or_(a, b) == IF falsy(a) THEN b ELSE a

\* os.environ.get(name, default)
environ_get(env, name, default) == IF env[name] = None THEN default ELSE env[name]

NaRaise(error) ==
    [kind |-> "raise", error |-> error,
     self |-> [graph_id |-> None, region |-> None, connection_string |-> None]]

\* __init__ with the environment variable consulted before the argument.
NeptuneAnalyticsAdapter_init_env_first(graph_id, region, env) ==
    LET self_graph_id == or_(environ_get(env, GRAPH_ID_VAR, None), graph_id)
        self_region == or_(region, environ_get(env, REGION_VAR, DEFAULT_REGION))
    IN  IF falsy(self_graph_id)
        THEN NaRaise("ValueError")
        ELSE [kind |-> "return", error |-> "",
              self |-> [graph_id |-> self_graph_id, region |-> self_region,
                        connection_string |-> SCHEME \o self_graph_id]]

\* NeptuneAnalyticsAdapter.__init__(graph_id, region) in the environment env.
NeptuneAnalyticsAdapter_init(graph_id, region, env) ==
    LET self_graph_id == or_(graph_id, environ_get(env, GRAPH_ID_VAR, None))
        self_region == or_(region, environ_get(env, REGION_VAR, DEFAULT_REGION))
    IN  IF falsy(self_graph_id)
        THEN NaRaise("ValueError")
        ELSE [kind |-> "return", error |-> "",
              self |-> [graph_id |-> self_graph_id, region |-> self_region,
                        connection_string |-> SCHEME \o self_graph_id]]

\* NeptuneAnalyticsAdapter.initialize_graph_stores(connection_string, graph_id,
\* region): the import of the toolkit succeeds or raises ImportError, and the
\* two factories return or raise; every exception is logged and re-raised. A
\* store is shown as the connection string its factory was given.
initialize_graph_stores(connection_string, graph_id, region, env, import_ok, factories_ok) ==
    LET no_stores == [graph_store |-> None, vector_store |-> None]
        built == IF falsy(connection_string) /\ ~falsy(graph_id)
                 THEN SCHEME \o graph_id
                 ELSE connection_string
        adapter == NeptuneAnalyticsAdapter_init(graph_id, region, env)
    IN  IF ~import_ok THEN [kind |-> "raise", error |-> "ImportError", value |-> no_stores]
        ELSE IF falsy(built) /\ adapter.kind = "raise"
        THEN [kind |-> "raise", error |-> adapter.error, value |-> no_stores]
        ELSE IF ~factories_ok
        THEN [kind |-> "raise", error |-> "Exception", value |-> no_stores]
        ELSE LET used == IF falsy(built) THEN adapter.self.connection_string ELSE built
             IN  [kind |-> "return", error |-> "",
                  value |-> [graph_store |-> used, vector_store |-> used]]

\* The environment is set up, as by the shell or a .env file.
na_setenv ==
    \E graph_id \in GraphIdEnvValues, region \in RegionEnvValues :
        /\ na_environ' = (GRAPH_ID_VAR :> graph_id) @@ (REGION_VAR :> region)
        /\ UNCHANGED na_call

\* adapter = NeptuneAnalyticsAdapter(graph_id, region);
\* adapter.get_connection_string()
NeptuneAnalyticsAdapter_new ==
    \E graph_id \in GraphIdArgs, region \in RegionArgs :
        /\ na_call' = [op |-> "__init__",
                       args |-> [connection_string |-> None, graph_id |-> graph_id,
                                 region |-> region],
                       environ |-> na_environ,
                       outcome |-> NeptuneAnalyticsAdapter_init(graph_id, region, na_environ)]
        /\ UNCHANGED na_environ

initialize_graph_stores_call ==
    \E connection_string \in ConnectionStringArgs, graph_id \in GraphIdArgs,
       region \in RegionArgs, import_ok \in BOOLEAN, factories_ok \in BOOLEAN :
        /\ na_call' = [op |-> "initialize_graph_stores",
                       args |-> [connection_string |-> connection_string,
                                 graph_id |-> graph_id, region |-> region],
                       environ |-> na_environ,
                       outcome |-> initialize_graph_stores(connection_string, graph_id, region,
                                                           na_environ, import_ok, factories_ok)]
        /\ UNCHANGED na_environ

AdapterInit ==
    /\ na_environ = (GRAPH_ID_VAR :> None) @@ (REGION_VAR :> None)
    /\ na_call = [op |-> "none",
                  args |-> [connection_string |-> None, graph_id |-> None, region |-> None],
                  environ |-> (GRAPH_ID_VAR :> None) @@ (REGION_VAR :> None),
                  outcome |-> NaRaise("")]

\* ------------------------------------------------------------------ run_tests.py
\* The scripts of run_integration_tests and of run_schema_validation, in order.
integration_tests ==
    <<"scripts/test_neptune_connection.py", "scripts/test_titan_embeddings.py",
      "scripts/test_bedrock_embeddings.py">>

schema_scripts ==
    <<"scripts/create_hyperibis_schema.py", "scripts/create_metacog_schema.py",
      "scripts/create_metacog_schema_opencypher.py">>

\* What can happen to one listed script: it is not there, subprocess.run
\* raises, or the script runs and exits with a return code.
ScriptFates ==
    {[exists |-> FALSE, raised |-> FALSE, returncode |-> 0],
     [exists |-> TRUE, raised |-> TRUE, returncode |-> 0],
     [exists |-> TRUE, raised |-> FALSE, returncode |-> 0],
     [exists |-> TRUE, raised |-> FALSE, returncode |-> 1]}

\* What the unittest run can report: the lengths of result.failures and result.errors.
TestResults == [failures : 0..1, errors : 0..1]

\* The four flags of the argument parser.
Namespaces == [verbose : BOOLEAN, unit_only : BOOLEAN, integration_only : BOOLEAN,
               schema_only : BOOLEAN]

\* run_unittest_suite, given the TestResult of the run.
run_unittest_suite(result) == result.failures = 0 /\ result.errors = 0

\* A run_script_test that looks at nothing but whether the process started.
run_script_test_ignores_returncode(fate) == ~fate.raised

\* run_script_test on a script that exists: the return code decides, an exception is a failure.
run_script_test(fate) ==
    IF fate.raised THEN FALSE
    ELSE fate.returncode = 0

\* The loop body shared by run_integration_tests and run_schema_validation:
\* results[script] for each listed script.
script_results(scripts, fates) ==
    [i \in DOMAIN scripts |-> IF fates[i].exists THEN run_script_test(fates[i]) ELSE FALSE]

\* all(results.values())
all(results) == \A i \in DOMAIN results : results[i]

\* main, lines 108-119: the arguments are parsed and all_passed starts True.
main_parse_args ==
    /\ rt_pc = "start"
    /\ \E args \in Namespaces : rt_args' = args
    /\ all_passed' = TRUE
    /\ rt_pc' = "unit"
    /\ UNCHANGED <<rt_unit, rt_integration, rt_schema, rt_exit>>

\* main, lines 122-124.
main_unit_tests ==
    /\ rt_pc = "unit"
    /\ IF ~rt_args.integration_only /\ ~rt_args.schema_only
       THEN \E result \in TestResults :
               /\ rt_unit' = <<result>>
               /\ all_passed' = (all_passed /\ run_unittest_suite(result))
       ELSE UNCHANGED <<rt_unit, all_passed>>
    /\ rt_pc' = "integration"
    /\ UNCHANGED <<rt_args, rt_integration, rt_schema, rt_exit>>

\* main, lines 127-129, with run_integration_tests.
main_integration_tests ==
    /\ rt_pc = "integration"
    /\ IF ~rt_args.unit_only /\ ~rt_args.schema_only
       THEN \E fates \in [DOMAIN integration_tests -> ScriptFates] :
               LET integration_results == script_results(integration_tests, fates)
               IN  /\ rt_integration' = <<[fates |-> fates, results |-> integration_results]>>
                   /\ all_passed' = (all_passed /\ all(integration_results))
       ELSE UNCHANGED <<rt_integration, all_passed>>
    /\ rt_pc' = "schema"
    /\ UNCHANGED <<rt_args, rt_unit, rt_schema, rt_exit>>

\* main, lines 132-134, with run_schema_validation.
main_schema_validation ==
    /\ rt_pc = "schema"
    /\ IF ~rt_args.unit_only /\ ~rt_args.integration_only
       THEN \E fates \in [DOMAIN schema_scripts -> ScriptFates] :
               LET schema_results == script_results(schema_scripts, fates)
               IN  /\ rt_schema' = <<[fates |-> fates, results |-> schema_results]>>
                   /\ all_passed' = (all_passed /\ all(schema_results))
       ELSE UNCHANGED <<rt_schema, all_passed>>
    /\ rt_pc' = "report"
    /\ UNCHANGED <<rt_args, rt_unit, rt_integration, rt_exit>>

\* main, lines 136-142.
main_return ==
    /\ rt_pc = "report"
    /\ rt_exit' = <<IF all_passed THEN 0 ELSE 1>>
    /\ rt_pc' = "exit"
    /\ UNCHANGED <<rt_args, all_passed, rt_unit, rt_integration, rt_schema>>

TestsInit ==
    /\ rt_pc = "start"
    /\ rt_args = [verbose |-> FALSE, unit_only |-> FALSE, integration_only |-> FALSE,
                  schema_only |-> FALSE]
    /\ all_passed = TRUE
    /\ rt_unit = <<>>
    /\ rt_integration = <<>>
    /\ rt_schema = <<>>
    /\ rt_exit = <<>>

\* ------------------------------------------------------------------ process_document, the loops
\* What the extract_* methods can answer with.
IssueLists == {<<>>, <<[question |-> "Q1"]>>, <<[question |-> "Q1"], [question |-> "Q2"]>>}
PositionLists == {<<>>, <<[answer |-> "A1"]>>, <<[answer |-> "A1"], [answer |-> "A1"]>>}
ArgumentLists ==
    {<<>>, <<[warrant |-> "W1", evidence |-> "E1"]>>,
     <<[warrant |-> "W1"], [warrant |-> "W1", evidence |-> "E1"]>>}

\* pd_arg_id with the position left out of the id
pd_arg_id_by_issue(i, j, tag, k) == "arg" \o ToString(i) \o "_" \o tag \o ToString(k)

\* The ids of lines 360, 378, 402/435 and 415/448; i, j, k count from 1.
pd_issue_id(i) == "issue" \o ToString(i)
pd_position_id(i, j) == "position" \o ToString(i) \o "_" \o ToString(j)
pd_arg_id(i, j, tag, k) == "arg" \o ToString(i) \o "_" \o ToString(j) \o "_" \o tag \o ToString(k)
pd_evidence_id(i, j, tag, k) ==
    "evidence" \o ToString(i) \o "_" \o ToString(j) \o "_" \o tag \o ToString(k)

\* Lines 349-354: first_chunk = chunks[0], issues = bedrock.extract_issues(first_chunk).
pd_extract_issues ==
    /\ ex_pc = "start"
    /\ \E issues \in IssueLists : ex_lists' = [ex_lists EXCEPT !.issues = issues]
    /\ ex_pc' = "issues"
    /\ UNCHANGED <<ex_at, argument_model>>

\* Lines 358-374: the next issue is added and its positions are extracted; or
\* the loop ends and process_document returns (454).
pd_issue_loop ==
    /\ ex_pc = "issues"
    /\ IF ex_at.i < Len(ex_lists.issues)
       THEN LET i == ex_at.i + 1
                issue == ex_lists.issues[i]
            IN  /\ argument_model' =
                       [argument_model EXCEPT !.issues =
                           Append(@, [id |-> pd_issue_id(i),
                                      question |-> issue.question,
                                      issue_type |-> get(issue, "issue_type", "regular"),
                                      description |-> get(issue, "description", None)])]
                /\ \E positions \in PositionLists :
                       ex_lists' = [ex_lists EXCEPT !.positions = positions]
                /\ ex_at' = [ex_at EXCEPT !.i = i, !.j = 0]
                /\ ex_pc' = "positions"
       ELSE /\ ex_pc' = "done"
            /\ UNCHANGED <<ex_at, ex_lists, argument_model>>

\* Lines 376-397: the next position is added and its supporting arguments are
\* extracted; or the loop ends.
pd_position_loop ==
    /\ ex_pc = "positions"
    /\ IF ex_at.j < Len(ex_lists.positions)
       THEN LET j == ex_at.j + 1
                position == ex_lists.positions[j]
            IN  /\ argument_model' =
                       [argument_model EXCEPT !.positions =
                           Append(@, [id |-> pd_position_id(ex_at.i, j),
                                      issue_id |-> pd_issue_id(ex_at.i),
                                      answer |-> position.answer,
                                      description |-> get(position, "description", None)])]
                /\ \E supporting_args \in ArgumentLists :
                       ex_lists' = [ex_lists EXCEPT !.args = supporting_args]
                /\ ex_at' = [ex_at EXCEPT !.j = j, !.k = 0]
                /\ ex_pc' = "sup"
       ELSE /\ ex_pc' = "issues"
            /\ UNCHANGED <<ex_at, ex_lists, argument_model>>

\* Lines 399-411 and 432-444: add_argument for the next supporting
\* (rebutting) argument; after the supporting ones the rebutting arguments
\* are extracted (423-430), after the rebutting ones the loop ends.
pd_argument_loop ==
    /\ ex_pc \in {"sup", "reb"}
    /\ IF ex_at.k < Len(ex_lists.args)
       THEN LET k == ex_at.k + 1
                arg == ex_lists.args[k]
            IN  /\ argument_model' =
                       [argument_model EXCEPT !.arguments =
                           Append(@, [id |-> pd_arg_id(ex_at.i, ex_at.j, ex_pc, k),
                                      position_id |-> pd_position_id(ex_at.i, ex_at.j),
                                      warrant |-> arg.warrant,
                                      is_supporting |-> (ex_pc = "sup")])]
                /\ ex_at' = [ex_at EXCEPT !.k = k]
                /\ ex_pc' = ex_pc \o "_evidence"
                /\ UNCHANGED ex_lists
       ELSE IF ex_pc = "sup"
       THEN /\ \E rebutting_args \in ArgumentLists :
                   ex_lists' = [ex_lists EXCEPT !.args = rebutting_args]
            /\ ex_at' = [ex_at EXCEPT !.k = 0]
            /\ ex_pc' = "reb"
            /\ UNCHANGED argument_model
       ELSE /\ ex_pc' = "positions"
            /\ UNCHANGED <<ex_at, ex_lists, argument_model>>

\* Lines 413-421 and 446-452: `if 'evidence' in arg`, add_evidence.
pd_add_evidence ==
    /\ ex_pc \in {"sup_evidence", "reb_evidence"}
    /\ LET tag == IF ex_pc = "sup_evidence" THEN "sup" ELSE "reb"
           arg == ex_lists.args[ex_at.k]
       IN  /\ argument_model' =
                  IF "evidence" \in DOMAIN arg
                  THEN [argument_model EXCEPT !.evidence =
                           Append(@, [id |-> pd_evidence_id(ex_at.i, ex_at.j, tag, ex_at.k),
                                      argument_id |-> pd_arg_id(ex_at.i, ex_at.j, tag, ex_at.k),
                                      content |-> arg.evidence,
                                      source |-> "Chunk 1"])]
                  ELSE argument_model
           /\ ex_pc' = tag
    /\ UNCHANGED <<ex_at, ex_lists>>

ExtractionInit ==
    /\ ex_pc = "start"
    /\ ex_at = [i |-> 0, j |-> 0, k |-> 0]
    /\ ex_lists = [issues |-> <<>>, positions |-> <<>>, args |-> <<>>]
    /\ argument_model = ArgumentModel_init

\* ------------------------------------------------------------------ ArgumentExtractor
\* The document_id of the run.
DocumentId == "doc"

\* What the LLM can answer a chunk's prompts with: the objects carry the ids
\* the LLM chose.
LlmIssues == {<<>>, <<[id |-> "issue1", question |-> "Q1"]>>,
              <<[id |-> "issue1", question |-> "Q1"], [id |-> "issue2", question |-> "Q2"]>>}
LlmPositions == {<<>>, <<[id |-> "position1", answer |-> "A1"]>>}
LlmArguments == {<<>>, <<[id |-> "arg1", warrant |-> "W1", evidence |-> "E1"]>>}

\* The sequences of a sequence of sequences, one after the other.
RECURSIVE Flatten(_)
Flatten(seqs) == IF seqs = <<>> THEN <<>> ELSE Head(seqs) \o Flatten(Tail(seqs))

\* The entries of those of the objects that have evidence.
SelectEvidence(args, entry(_)) ==
    Flatten([k \in 1..Len(args) |->
                IF "evidence" \in DOMAIN args[k] THEN <<entry(args[k])>> ELSE <<>>])

\* ArgumentExtractor._process_chunk(chunk, document_id, chunk_id) in a run in
\* which the LLM answers with the given issues, and with the given positions
\* and supporting and rebutting arguments each time it is asked for them.
_process_chunk(model, document_id, chunk_id, issues, positions, supporting_args, rebutting_args) ==
    LET issue_entry(issue) ==
            [id |-> document_id \o "_issue_" \o issue.id,
             question |-> issue.question,
             issue_type |-> get(issue, "issue_type", "regular"),
             description |-> get(issue, "description", None)]
        position_entry(issue, position) ==
            [id |-> document_id \o "_position_" \o position.id,
             issue_id |-> document_id \o "_issue_" \o issue.id,
             answer |-> position.answer,
             description |-> get(position, "description", None)]
        argument_entry(position, arg, tag) ==
            [id |-> document_id \o "_arg_" \o tag \o "_" \o arg.id,
             position_id |-> document_id \o "_position_" \o position.id,
             warrant |-> arg.warrant,
             is_supporting |-> (tag = "sup")]
        evidence_entry(arg, tag) ==
            [id |-> document_id \o "_evidence_" \o arg.id,
             argument_id |-> document_id \o "_arg_" \o tag \o "_" \o arg.id,
             content |-> arg.evidence,
             source |-> "Chunk " \o ToString(chunk_id)]
        sup_evidence(arg) == evidence_entry(arg, "sup")
        reb_evidence(arg) == evidence_entry(arg, "reb")
        per_position(row(_)) ==
            Flatten([i \in 1..Len(issues) |->
                        Flatten([j \in 1..Len(positions) |-> row(positions[j])])])
        arguments_of(position) ==
            [k \in 1..Len(supporting_args) |-> argument_entry(position, supporting_args[k], "sup")]
            \o [k \in 1..Len(rebutting_args) |-> argument_entry(position, rebutting_args[k], "reb")]
        evidence_of(position) ==
            SelectEvidence(supporting_args, sup_evidence)
            \o SelectEvidence(rebutting_args, reb_evidence)
    IN  [issues |-> model.issues \o [i \in 1..Len(issues) |-> issue_entry(issues[i])],
         positions |-> model.positions \o
             Flatten([i \in 1..Len(issues) |->
                         [j \in 1..Len(positions) |-> position_entry(issues[i], positions[j])]]),
         arguments |-> model.arguments \o per_position(arguments_of),
         evidence |-> model.evidence \o per_position(evidence_of)]

\* ArgumentExtractor._merge_findings(): the body is `pass`.
_merge_findings(model) == model

\* extract_arguments, lines 296-303: the content is read and split into chunks.
ae_chunk_text ==
    /\ ae_pc = "start"
    /\ \E n \in 1..2 : ae_chunks' = [n |-> n, done |-> 0]
    /\ ae_pc' = "chunks"
    /\ UNCHANGED <<ae_model, ae_graph, ae_queries>>

\* extract_arguments, lines 306-308: self._process_chunk(chunk, document_id, chunk_id=i).
ae_process_chunk ==
    /\ ae_pc = "chunks"
    /\ ae_chunks.done < ae_chunks.n
    /\ \E issues \in LlmIssues, positions \in LlmPositions,
          supporting_args \in LlmArguments, rebutting_args \in LlmArguments :
          ae_model' = _process_chunk(ae_model, DocumentId, ae_chunks.done,
                                     issues, positions, supporting_args, rebutting_args)
    /\ ae_chunks' = [ae_chunks EXCEPT !.done = @ + 1]
    /\ UNCHANGED <<ae_pc, ae_graph, ae_queries>>

\* extract_arguments, line 311: self._merge_findings().
ae_merge_findings ==
    /\ ae_pc = "chunks"
    /\ ae_chunks.done = ae_chunks.n
    /\ ae_model' = _merge_findings(ae_model)
    /\ ae_pc' = "merged"
    /\ UNCHANGED <<ae_chunks, ae_graph, ae_queries>>

\* _add_arguments_to_graph with the positions upserted before the issues
_add_arguments_to_graph_positions_first(model) ==
    [n \in 1..Len(model.positions) |->
        [label |-> "Position", id |-> model.positions[n].id,
         parent |-> <<[label |-> "Issue", id |-> model.positions[n].issue_id]>>]]
    \o [n \in 1..Len(model.issues) |->
        [label |-> "Issue", id |-> model.issues[n].id, parent |-> <<>>]]
    \o [n \in 1..Len(model.arguments) |->
        [label |-> "Argument", id |-> model.arguments[n].id,
         parent |-> <<[label |-> "Position", id |-> model.arguments[n].position_id]>>]]
    \o [n \in 1..Len(model.evidence) |->
        [label |-> "Evidence", id |-> model.evidence[n].id,
         parent |-> <<[label |-> "Argument", id |-> model.evidence[n].argument_id]>>]]

\* _add_arguments_to_graph: the queries of its four loops in the order they
\* are built by _create_issue_node, _create_position_node,
\* _create_argument_node and _create_evidence_node: the node each one merges
\* and the node its MATCH clause names (the assessments list stays empty).
_add_arguments_to_graph(model) ==
    [n \in 1..Len(model.issues) |->
        [label |-> "Issue", id |-> model.issues[n].id, parent |-> <<>>]]
    \o [n \in 1..Len(model.positions) |->
        [label |-> "Position", id |-> model.positions[n].id,
         parent |-> <<[label |-> "Issue", id |-> model.positions[n].issue_id]>>]]
    \o [n \in 1..Len(model.arguments) |->
        [label |-> "Argument", id |-> model.arguments[n].id,
         parent |-> <<[label |-> "Position", id |-> model.arguments[n].position_id]>>]]
    \o [n \in 1..Len(model.evidence) |->
        [label |-> "Evidence", id |-> model.evidence[n].id,
         parent |-> <<[label |-> "Argument", id |-> model.evidence[n].argument_id]>>]]

\* graph_store.execute_query(query) when it does not raise: MERGE the node,
\* and where the MATCH finds the parent, MERGE the relationship (an edge is
\* kept as the pair of the node's id and its parent's id).
execute_query(graph, query) ==
    [nodes |-> graph.nodes \cup {[label |-> query.label, id |-> query.id]},
     edges |-> graph.edges \cup
                  {<<query.id, query.parent[n].id>> :
                      n \in {m \in DOMAIN query.parent : query.parent[m] \in graph.nodes}}]

\* extract_arguments, lines 313-317: graph_index.extract_and_build returns,
\* or raises and extract_arguments re-raises.
ae_extract_and_build ==
    /\ ae_pc = "merged"
    /\ ae_pc' \in {"graph", "raised"}
    /\ UNCHANGED <<ae_chunks, ae_model, ae_graph, ae_queries>>

\* The next _create_*_node call of _add_arguments_to_graph: execute_query
\* runs the query or raises, and the exception is printed and dropped. At
\* most one query of a run raises.
ae_create_node ==
    /\ ae_pc = "graph"
    /\ Len(ae_queries) < Len(_add_arguments_to_graph(ae_model))
    /\ LET query == _add_arguments_to_graph(ae_model)[Len(ae_queries) + 1]
       IN  \E raises \in BOOLEAN :
               /\ raises => \A n \in 1..Len(ae_queries) : ~ae_queries[n].raised
               /\ ae_graph' = IF raises THEN ae_graph ELSE execute_query(ae_graph, query)
               /\ ae_queries' = Append(ae_queries,
                                       [query |-> query, raised |-> raises,
                                        matched |-> \A n \in DOMAIN query.parent :
                                                       query.parent[n] \in ae_graph.nodes])
    /\ UNCHANGED <<ae_pc, ae_chunks, ae_model>>

\* extract_arguments, lines 322-326: every loop is through, the result is returned.
ae_return ==
    /\ ae_pc = "graph"
    /\ Len(ae_queries) = Len(_add_arguments_to_graph(ae_model))
    /\ ae_pc' = "returned"
    /\ UNCHANGED <<ae_chunks, ae_model, ae_graph, ae_queries>>

ExtractorInit ==
    /\ ae_pc = "start"
    /\ ae_chunks = [n |-> 0, done |-> 0]
    /\ ae_model = ArgumentModel_init
    /\ ae_graph = [nodes |-> {}, edges |-> {}]
    /\ ae_queries = <<>>

\* ------------------------------------------------------------------ extract_claims_from_sample.py
\* The offset of `k + 100`.
OFFSET == 100

\* hashlib.md5(text.encode()).hexdigest()[:8] of the texts of the model (txt is the argument text).
md5_8(txt) ==
    CASE txt = "C1" -> "1a2ddc2d"
      [] txt = "S1" -> "67f6274e"
      [] txt = "W1" -> "1e9944df"
      [] txt = "W2" -> "6636b1bc"
      [] txt = "E1" -> "48ed5d2d"

\* generate_stable_id(prefix, text, index) with an index that is not None.
generate_stable_id(prefix, txt, index) ==
    prefix \o "_" \o md5_8(txt) \o "_" \o ToString(index)

\* What the extract_* methods can answer with; the long answer has one
\* supporting argument more than the offset.
ClaimAnswers == {<<>>, <<[claim |-> "C1"]>>, <<[claim |-> "C1"], [claim |-> "C1"]>>}
StatementAnswers == {<<>>, <<[statement |-> "S1"]>>}
SupportingAnswers ==
    {<<>>, <<[warrant |-> "W1", evidence |-> "E1"]>>, <<[warrant |-> "W2"]>>,
     [k \in 1..(OFFSET + 1) |-> [warrant |-> "W1", evidence |-> "E1"]]}
RebuttingAnswers == {<<>>, <<[warrant |-> "W1", evidence |-> "E1"]>>}

\* Lines 259-270: extract_claims.
pt_extract_claims ==
    /\ pt_pc = "start"
    /\ \E claims \in ClaimAnswers : pt_lists' = [pt_lists EXCEPT !.claims = claims]
    /\ pt_pc' = "claims"
    /\ UNCHANGED <<pt_at, pt_model, pt_ids>>

\* Lines 273-291: the next claim is added and its positions are extracted; or
\* the loop ends and process_text returns (378).
pt_claim_loop ==
    /\ pt_pc = "claims"
    /\ IF pt_at.i < Len(pt_lists.claims)
       THEN LET claim_data == pt_lists.claims[pt_at.i + 1]
            IN  /\ pt_model' =
                       [pt_model EXCEPT !.claims =
                           Append(@, [id |-> generate_stable_id("claim", claim_data.claim, pt_at.i),
                                      claim |-> claim_data.claim])]
                /\ \E positions \in StatementAnswers :
                       pt_lists' = [pt_lists EXCEPT !.positions = positions]
                /\ pt_at' = [pt_at EXCEPT !.i = @ + 1, !.j = 0]
                /\ pt_pc' = "positions"
       ELSE /\ pt_pc' = "done"
            /\ UNCHANGED <<pt_at, pt_lists, pt_model>>
    /\ UNCHANGED pt_ids

\* Lines 294-318: the next position is added and its supporting arguments
\* are extracted; or the loop ends.
pt_position_loop ==
    /\ pt_pc = "positions"
    /\ IF pt_at.j < Len(pt_lists.positions)
       THEN LET position == pt_lists.positions[pt_at.j + 1]
            IN  /\ pt_model' =
                       [pt_model EXCEPT !.positions =
                           Append(@, [id |-> generate_stable_id("position", position.statement,
                                                                pt_at.j),
                                      claim_id |-> pt_model.claims[pt_at.i].id,
                                      statement |-> position.statement])]
                /\ \E supporting_args \in SupportingAnswers :
                       pt_lists' = [pt_lists EXCEPT !.args = supporting_args]
                /\ pt_at' = [pt_at EXCEPT !.j = @ + 1, !.k = 0]
                /\ pt_pc' = "sup"
       ELSE /\ pt_pc' = "claims"
            /\ UNCHANGED <<pt_at, pt_lists, pt_model>>
    /\ UNCHANGED pt_ids

\* Lines 321-342 and 355-377: the next supporting (rebutting) argument and
\* its evidence are added, the rebutting ones with index k + 100; after the
\* supporting ones the rebutting arguments are extracted (345-352).
pt_argument_loop ==
    /\ pt_pc \in {"sup", "reb"}
    /\ IF pt_at.k < Len(pt_lists.args)
       THEN LET arg == pt_lists.args[pt_at.k + 1]
                index == IF pt_pc = "sup" THEN pt_at.k ELSE pt_at.k + OFFSET
                arg_id == generate_stable_id("arg", arg.warrant, index)
                made(prefix, txt) ==
                    [prefix |-> prefix, text |-> txt, index |-> index,
                     id |-> generate_stable_id(prefix, txt, index),
                     claim |-> pt_at.i, position |-> pt_at.j, kind |-> pt_pc]
            IN  /\ pt_model' =
                       [pt_model EXCEPT
                           !.arguments =
                               Append(@, [id |-> arg_id,
                                          position_id |-> pt_model.positions[Len(pt_model.positions)].id,
                                          warrant |-> arg.warrant,
                                          is_supporting |-> (pt_pc = "sup")]),
                           !.evidence =
                               IF "evidence" \in DOMAIN arg
                               THEN Append(@, [id |-> generate_stable_id("evidence", arg.evidence,
                                                                         index),
                                               argument_id |-> arg_id,
                                               content |-> arg.evidence])
                               ELSE @]
                /\ pt_ids' = pt_ids \cup {made("arg", arg.warrant)}
                                \cup (IF "evidence" \in DOMAIN arg
                                      THEN {made("evidence", arg.evidence)} ELSE {})
                /\ pt_at' = [pt_at EXCEPT !.k = @ + 1]
                /\ UNCHANGED <<pt_pc, pt_lists>>
       ELSE IF pt_pc = "sup"
       THEN /\ \E rebutting_args \in RebuttingAnswers :
                   pt_lists' = [pt_lists EXCEPT !.args = rebutting_args]
            /\ pt_at' = [pt_at EXCEPT !.k = 0]
            /\ pt_pc' = "reb"
            /\ UNCHANGED <<pt_model, pt_ids>>
       ELSE /\ pt_pc' = "positions"
            /\ UNCHANGED <<pt_at, pt_lists, pt_model, pt_ids>>

SampleInit ==
    /\ pt_pc = "start"
    /\ pt_at = [i |-> 0, j |-> 0, k |-> 0]
    /\ pt_lists = [claims |-> <<>>, positions |-> <<>>, args |-> <<>>]
    /\ pt_model = [claims |-> <<>>, positions |-> <<>>, arguments |-> <<>>, evidence |-> <<>>]
    /\ pt_ids = {}

\* ------------------------------------------------------------------ create_metacog_schema (openCypher)
\* The queries of create_metacog_schema after the count query, in order.
SchemaQueries ==
    <<"Agent", "Story", "Evidence", "Assumption", "Critique",
      "ASSUMES", "CRITIQUES", "ASSESSES", "SUPPORTS">>

\* What can become of `os.popen(cmd).read()`: popen raises; the command
\* prints the server's JSON answer to a query that went through; it prints
\* the server's JSON error; it prints something that is not JSON (nothing at
\* all when awscurl cannot be run or cannot connect).
Fates == {"raises", "answer", "error", "no json"}

\* execute_query(query) for one fate of the command; count is the node count
\* a successful count query reports.
execute_query_popen(fate, count) ==
    IF fate = "raises" THEN [success |-> FALSE, json |-> FALSE, results |-> <<>>]
    ELSE IF fate = "answer"
         THEN [success |-> TRUE, json |-> TRUE, results |-> <<<<[count |-> count]>>>>]
    ELSE IF fate = "error" THEN [success |-> TRUE, json |-> TRUE, results |-> <<>>]
    ELSE [success |-> TRUE, json |-> FALSE, results |-> <<>>]

\* Lines 43-56: the count query, and the question asked when the graph is not empty.
ms_count_nodes ==
    /\ ms_pc = "start"
    /\ \E fate \in Fates, count \in {0, 1}, proceed \in {"y", "n"} :
          LET r == execute_query_popen(fate, count)
              \* result.get('results', [{}])[0].get('count', 0); a str has no get
              counted == IF r.results = <<>> THEN 0 ELSE r.results[1][1].count
              stops == \/ ~r.success
                       \/ ~r.json
                       \/ (counted > 0 /\ proceed # "y")
          IN  /\ ms_log' = Append(ms_log, [query |-> "count", fate |-> fate])
              /\ ms_pc' = IF stops THEN "returned" ELSE "creating"
              /\ ms_result' = IF stops THEN <<FALSE>> ELSE <<>>

\* Lines 64-187: the next CREATE query; `if not success: return False`.
ms_create ==
    /\ ms_pc = "creating"
    /\ Len(ms_log) <= Len(SchemaQueries)
    /\ \E fate \in Fates \ {"no json"} :
          LET r == execute_query_popen(fate, 0)
          IN  /\ ms_log' = Append(ms_log, [query |-> SchemaQueries[Len(ms_log)], fate |-> fate])
              /\ ms_pc' = IF r.success THEN "creating" ELSE "returned"
              /\ ms_result' = IF r.success THEN <<>> ELSE <<FALSE>>

\* Lines 189-190: every query is through, return True.
ms_return ==
    /\ ms_pc = "creating"
    /\ Len(ms_log) = Len(SchemaQueries) + 1
    /\ ms_pc' = "returned"
    /\ ms_result' = <<TRUE>>
    /\ UNCHANGED ms_log

MetacogInit ==
    /\ ms_pc = "start"
    /\ ms_log = <<>>
    /\ ms_result = <<>>

\* ------------------------------------------------------------------ mock LexicalGraph
\* The most facts a graph of the model holds.
MaxFacts == 3

\* str.lower() on a string given as the sequence of its characters.
lower(s) ==
    [n \in 1..Len(s) |-> CASE s[n] = "A" -> "a" [] s[n] = "B" -> "b" [] OTHER -> s[n]]

\* `needle in haystack` for two strings.
contains(haystack, needle) ==
    \E offset \in 0..(Len(haystack) - Len(needle)) :
        \A n \in 1..Len(needle) : haystack[offset + n] = needle[n]

\* Fact(id, subject, predicate, object)
Fact1 == [id |-> "d1_fact_1", subject |-> <<"A", "b">>, predicate |-> <<"a">>, object |-> <<"b">>]
Fact2 == [id |-> "d1_fact_2", subject |-> <<"b">>, predicate |-> <<"a">>, object |-> <<"a", "b">>]
Fact3 == [id |-> "d2_fact_1", subject |-> <<"c">>, predicate |-> <<"c">>, object |-> <<"A">>]

\* The lists add_facts is called with, the query strings and the values of top_k.
FactLists == {<<>>, <<Fact1>>, <<Fact3, Fact2>>, <<Fact2, Fact1>>}
QueryStrings == {<<>>, <<"a">>, <<"A">>, <<"b">>, <<"a", "b">>, <<"d">>}
TopKValues == {-1, 0, 1, 2, 10}

\* The weights 0.8, 0.5 and 0.7 of lines 164-168, in tenths.
SUBJECT_SCORE == 8
PREDICATE_SCORE == 5
OBJECT_SCORE == 7

\* Lines 162-168: the score of one fact for the lower-cased query.
fact_score(fact, query) ==
    (IF contains(lower(fact.subject), query) THEN SUBJECT_SCORE ELSE 0)
    + (IF contains(lower(fact.predicate), query) THEN PREDICATE_SCORE ELSE 0)
    + (IF contains(lower(fact.object), query) THEN OBJECT_SCORE ELSE 0)

\* Lines 161-178: the results in the order of self.facts.
RECURSIVE scored(_, _)
scored(facts, query) ==
    IF facts = <<>> THEN <<>>
    ELSE LET fact == Head(facts)
             score == fact_score(fact, query)
         IN  (IF score > 0
              THEN <<[fact |-> [subject |-> fact.subject, predicate |-> fact.predicate,
                                object |-> fact.object],
                      score |-> score]>>
              ELSE <<>>)
             \o scored(Tail(facts), query)

\* The results left as they are
sorted_by_score_skipped(results) == results

\* sorted(results, key=lambda x: x["score"], reverse=True): a stable sort,
\* results of equal score keep their order.
RECURSIVE sorted_by_score(_)
sorted_by_score(results) ==
    IF results = <<>> THEN <<>>
    ELSE LET rest == sorted_by_score(Tail(results))
             before == Cardinality({n \in 1..Len(rest) : rest[n].score > Head(results).score})
         IN  SubSeq(rest, 1, before) \o <<Head(results)>> \o SubSeq(rest, before + 1, Len(rest))

\* results[:top_k]
slice_to(results, top_k) ==
    IF top_k >= 0 THEN SubSeq(results, 1, Min(top_k, Len(results)))
    ELSE SubSeq(results, 1, Max(0, Len(results) + top_k))

\* LexicalGraph.query(query, top_k)
LexicalGraph_query(facts, query, top_k) ==
    slice_to(sorted_by_score(scored(facts, lower(query))), top_k)

\* LexicalGraph.add_document(document)
add_document ==
    /\ \E id \in {"d1", "d2"} :
          /\ lg_documents' = lg_documents \cup {id}
          /\ lg_call' = [op |-> "add_document", documents |-> lg_documents, facts |-> lg_facts,
                         query |-> <<>>, top_k |-> 0, value |-> <<>>]
    /\ UNCHANGED lg_facts

\* LexicalGraph.add_facts(facts)
add_facts ==
    /\ \E facts \in FactLists :
          /\ Len(lg_facts) + Len(facts) <= MaxFacts
          /\ lg_facts' = lg_facts \o facts
          /\ lg_call' = [op |-> "add_facts", documents |-> lg_documents, facts |-> lg_facts,
                         query |-> <<>>, top_k |-> 0, value |-> <<>>]
    /\ UNCHANGED lg_documents

\* graph.query(query, top_k=top_k), as query_lexical_graph calls it.
query_lexical_graph ==
    /\ \E query \in QueryStrings, top_k \in TopKValues :
          lg_call' = [op |-> "query", documents |-> lg_documents, facts |-> lg_facts,
                      query |-> query, top_k |-> top_k,
                      value |-> LexicalGraph_query(lg_facts, query, top_k)]
    /\ UNCHANGED <<lg_documents, lg_facts>>

LexicalInit ==
    /\ lg_documents = {}
    /\ lg_facts = <<>>
    /\ lg_call = [op |-> "none", documents |-> {}, facts |-> <<>>, query |-> <<>>, top_k |-> 0,
                  value |-> <<>>]

\* ------------------------------------------------------------------ mock DocumentProcessor
\* The characters the document texts are made of, all different, so that a
\* chunk's text tells where it was cut.
Alphabet == <<"a", "b", "c", "d", "e">>

DocumentTexts == {SubSeq(Alphabet, 1, n) : n \in 0..Len(Alphabet)}
DocumentIds == {"d1", "d2"}

\* The arguments DocumentProcessor is constructed with.
ChunkSizes == 1..3
ChunkOverlaps == 0..3

\* The chunk size as the step: the overlap left out
range_step_without_overlap(size, lap) == size

\* The step of range(0, len(text), chunk_size - self.chunk_overlap)
range_step(size, lap) == size - lap

\* text[i:i + chunk_size], for i >= 0 and chunk_size >= 0.
text_slice(txt, i, size) == SubSeq(txt, i + 1, Min(i + size, Len(txt)))

\* f"{document.id}_chunk_{len(chunks)}"
chunk_id(id, n) == <<id, "_chunk_", n>>

\* Chunk(id=chunk_id, text=chunk_text), with the mock embedding [0.1] * 10
\* (in tenths) when the processor has an embedding model.
Chunk(id, txt, embedding_model) ==
    [id |-> id, text |-> txt,
     embedding |-> IF embedding_model THEN [n \in 1..10 |-> 1] ELSE <<>>]

\* Document(id, text)
dp_new_document ==
    /\ dp_pc \in {"idle", "done", "raised"}
    /\ \E id \in DocumentIds, txt \in DocumentTexts :
          dp_document' = [id |-> id, text |-> txt, chunks |-> <<>>]
    /\ dp_pc' = "idle"
    /\ UNCHANGED <<dp_self, dp_i, dp_chunks>>

\* DocumentProcessor(chunk_size, chunk_overlap).process(document), lines
\* 48-53: range raises ValueError for a step of zero.
dp_process ==
    /\ dp_pc \in {"idle", "done", "raised"}
    /\ \E size \in ChunkSizes, lap \in ChunkOverlaps, embedding_model \in BOOLEAN :
          /\ dp_self' = [chunk_size |-> size, chunk_overlap |-> lap,
                         embedding_model |-> embedding_model]
          /\ dp_pc' = IF range_step(size, lap) = 0 THEN "raised" ELSE "loop"
    /\ dp_i' = 0
    /\ dp_chunks' = <<>>
    /\ UNCHANGED dp_document

\* Whether the range has a value at i: none for a negative step, the stop
\* being len(text) >= 0.
in_range(i, stop, step) == step > 0 /\ i < stop

\* One pass of the loop body, lines 54-63.
dp_loop ==
    /\ dp_pc = "loop"
    /\ in_range(dp_i, Len(dp_document.text),
                range_step(dp_self.chunk_size, dp_self.chunk_overlap))
    /\ LET chunk_txt == text_slice(dp_document.text, dp_i, dp_self.chunk_size)
       IN  dp_chunks' =
               IF chunk_txt # <<>>
               THEN Append(dp_chunks,
                           Chunk(chunk_id(dp_document.id, Len(dp_chunks)), chunk_txt,
                                 dp_self.embedding_model))
               ELSE dp_chunks
    /\ dp_i' = dp_i + range_step(dp_self.chunk_size, dp_self.chunk_overlap)
    /\ UNCHANGED <<dp_pc, dp_document, dp_self>>

\* Lines 65-67: document.chunks = chunks; return document.
dp_return ==
    /\ dp_pc = "loop"
    /\ ~in_range(dp_i, Len(dp_document.text),
                 range_step(dp_self.chunk_size, dp_self.chunk_overlap))
    /\ dp_document' = [dp_document EXCEPT !.chunks = dp_chunks]
    /\ dp_pc' = "done"
    /\ UNCHANGED <<dp_self, dp_i, dp_chunks>>

ProcessorInit ==
    /\ dp_pc = "idle"
    /\ dp_document = [id |-> "d1", text |-> <<>>, chunks |-> <<>>]
    /\ dp_self = [chunk_size |-> 1, chunk_overlap |-> 0, embedding_model |-> FALSE]
    /\ dp_i = 0
    /\ dp_chunks = <<>>

ChunkInit ==
    /\ text = <<>>
    /\ chunk_size = 1
    /\ overlap = 0
    /\ pc = "idle"
    /\ start = 0
    /\ chunks = <<>>
    /\ spans = <<>>

Init == ChunkInit /\ CopiesInit /\ ConfigInit /\ EvidenceInit /\ ObjectInit /\ JsonInit
        /\ PipelineInit /\ AdapterInit /\ TestsInit
        /\ ExtractionInit
        /\ ExtractorInit
        /\ SampleInit
        /\ MetacogInit
        /\ LexicalInit
        /\ ProcessorInit

\* One call of DocumentChunker.chunk_text.
Next ==
    \/ chunk_text_call /\ UNCHANGED <<copies_vars, config_vars, evidence_vars, later_vars>>
    \/ chunk_text_loop /\ UNCHANGED <<copies_vars, config_vars, evidence_vars, later_vars>>
    \/ chunk_text_return /\ UNCHANGED <<copies_vars, config_vars, evidence_vars, later_vars>>

Spec == Init /\ [][Next]_vars

\* The four copies of the routine called with the same arguments.
NextCopies ==
    \/ compare_call /\ UNCHANGED <<config_vars, evidence_vars, later_vars>>
    \/ MayStep("pdf") /\ chunk_text_loop /\ UNCHANGED <<copies_vars, config_vars, evidence_vars, later_vars>>
    \/ MayStep("pdf") /\ chunk_text_return /\ UNCHANGED <<copies_vars, config_vars, evidence_vars, later_vars>>
    \/ MayStep("simple") /\ simple_chunk_text_loop /\ UNCHANGED <<chunker_vars, config_vars, evidence_vars, later_vars>>
    \/ MayStep("simple") /\ simple_chunk_text_return /\ UNCHANGED <<chunker_vars, config_vars, evidence_vars, later_vars>>
    \/ MayStep("graphrag") /\ graphrag_chunk_text_loop /\ UNCHANGED <<chunker_vars, config_vars, evidence_vars, later_vars>>
    \/ MayStep("graphrag") /\ graphrag_chunk_text_return /\ UNCHANGED <<chunker_vars, config_vars, evidence_vars, later_vars>>
    \/ MayStep("annotator") /\ annotator_chunk_text_loop /\ UNCHANGED <<chunker_vars, config_vars, evidence_vars, later_vars>>
    \/ MayStep("annotator") /\ annotator_chunk_text_return /\ UNCHANGED <<chunker_vars, config_vars, evidence_vars, later_vars>>

SpecCopies == Init /\ [][NextCopies]_vars

\* The environment, the imports of config.neptune_config and the calls of
\* get_neptune_connection_string, in any order.
NextConfig ==
    \/ \E name \in EnvVars : \E value \in EnvValues[name] :
          setenv(name, value) /\ UNCHANGED <<chunker_vars, copies_vars, evidence_vars, later_vars>>
    \/ \E name \in EnvVars : delenv(name) /\ UNCHANGED <<chunker_vars, copies_vars, evidence_vars, later_vars>>
    \/ \E f \in DotenvFiles : write_dotenv(f) /\ UNCHANGED <<chunker_vars, copies_vars, evidence_vars, later_vars>>
    \/ import_config /\ UNCHANGED <<chunker_vars, copies_vars, evidence_vars, later_vars>>
    \/ reload_config /\ UNCHANGED <<chunker_vars, copies_vars, evidence_vars, later_vars>>
    \/ get_neptune_connection_string_call /\ UNCHANGED <<chunker_vars, copies_vars, evidence_vars, later_vars>>

SpecConfig == Init /\ [][NextConfig]_vars

\* One EvidenceStore: the endpoint is configured and the configuration
\* imported, the store is created, and its properties and methods are used in
\* any order.
NextEvidence ==
    \/ /\ ~cfg_loaded
       /\ setenv("NEPTUNE_ENDPOINT", "test-endpoint")
       /\ UNCHANGED <<chunker_vars, copies_vars, evidence_vars, later_vars>>
    \/ /\ ~cfg_loaded
       /\ import_config
       /\ UNCHANGED <<chunker_vars, copies_vars, evidence_vars, later_vars>>
    \/ EvidenceStore_init /\ UNCHANGED <<chunker_vars, copies_vars, config_vars, later_vars>>
    \/ vector_store_access /\ UNCHANGED <<chunker_vars, copies_vars, config_vars, later_vars>>
    \/ graph_store_access /\ UNCHANGED <<chunker_vars, copies_vars, config_vars, later_vars>>
    \/ add_evidence /\ UNCHANGED <<chunker_vars, copies_vars, config_vars, later_vars>>
    \/ search_similar_evidence /\ UNCHANGED <<chunker_vars, copies_vars, config_vars, later_vars>>

SpecEvidence == Init /\ [][NextEvidence]_vars

\* An EvidenceStore that is written with add_evidence and read with
\* get_evidence.
NextEvidenceRead ==
    \/ /\ ~cfg_loaded
       /\ setenv("NEPTUNE_ENDPOINT", "test-endpoint")
       /\ UNCHANGED <<chunker_vars, copies_vars, evidence_vars, later_vars>>
    \/ /\ ~cfg_loaded
       /\ import_config
       /\ UNCHANGED <<chunker_vars, copies_vars, evidence_vars, later_vars>>
    \/ EvidenceStore_init /\ UNCHANGED <<chunker_vars, copies_vars, config_vars, later_vars>>
    \/ add_evidence /\ UNCHANGED <<chunker_vars, copies_vars, config_vars, later_vars>>
    \/ get_evidence /\ UNCHANGED <<chunker_vars, copies_vars, config_vars, later_vars>>

SpecEvidenceRead == Init /\ [][NextEvidenceRead]_vars

\* The Evidence class on its own.
NextObject ==
    \/ Evidence_new /\ UNCHANGED <<first_vars, final_vars, tests_vars, json_vars, pipeline_vars, adapter_vars>>
    \/ Evidence_to_dict /\ UNCHANGED <<first_vars, final_vars, tests_vars, json_vars, pipeline_vars, adapter_vars>>

SpecObject == Init /\ [][NextObject]_vars

\* BedrockClient._extract_json on its own.
NextJson == _extract_json_call /\ UNCHANGED <<first_vars, final_vars, tests_vars, object_vars, pipeline_vars, adapter_vars>>

SpecJson == Init /\ [][NextJson]_vars

\* The extract_* methods of a BedrockClient and process_document.
NextPipeline ==
    \/ extract_call /\ UNCHANGED <<first_vars, final_vars, tests_vars, object_vars, json_vars, adapter_vars, pd_call>>
    \/ process_document_call /\ UNCHANGED <<first_vars, final_vars, tests_vars, object_vars, json_vars, adapter_vars, bc_call>>

SpecPipeline == Init /\ [][NextPipeline]_vars

\* NeptuneAnalyticsAdapter in an environment that is set up before the calls.
NextAdapter ==
    \/ na_setenv /\ UNCHANGED <<first_vars, final_vars, tests_vars, object_vars, json_vars, pipeline_vars>>
    \/ NeptuneAnalyticsAdapter_new
           /\ UNCHANGED <<first_vars, final_vars, tests_vars, object_vars, json_vars, pipeline_vars>>
    \/ initialize_graph_stores_call
           /\ UNCHANGED <<first_vars, final_vars, tests_vars, object_vars, json_vars, pipeline_vars>>

SpecAdapter == Init /\ [][NextAdapter]_vars

\* One run of scripts/run_tests.py.
NextTests ==
    \/ main_parse_args /\ UNCHANGED <<first_vars, final_vars, object_vars, json_vars, pipeline_vars, adapter_vars>>
    \/ main_unit_tests /\ UNCHANGED <<first_vars, final_vars, object_vars, json_vars, pipeline_vars, adapter_vars>>
    \/ main_integration_tests
           /\ UNCHANGED <<first_vars, final_vars, object_vars, json_vars, pipeline_vars, adapter_vars>>
    \/ main_schema_validation
           /\ UNCHANGED <<first_vars, final_vars, object_vars, json_vars, pipeline_vars, adapter_vars>>
    \/ main_return /\ UNCHANGED <<first_vars, final_vars, object_vars, json_vars, pipeline_vars, adapter_vars>>

SpecTests == Init /\ [][NextTests]_vars

\* The loops of process_document over the first chunk.
NextExtraction ==
    \/ pd_extract_issues /\ UNCHANGED <<first_vars, middle_vars, extractor_vars, sample_vars, metacog_vars, lexical_vars, processor_vars>>
    \/ pd_issue_loop /\ UNCHANGED <<first_vars, middle_vars, extractor_vars, sample_vars, metacog_vars, lexical_vars, processor_vars>>
    \/ pd_position_loop /\ UNCHANGED <<first_vars, middle_vars, extractor_vars, sample_vars, metacog_vars, lexical_vars, processor_vars>>
    \/ pd_argument_loop /\ UNCHANGED <<first_vars, middle_vars, extractor_vars, sample_vars, metacog_vars, lexical_vars, processor_vars>>
    \/ pd_add_evidence /\ UNCHANGED <<first_vars, middle_vars, extractor_vars, sample_vars, metacog_vars, lexical_vars, processor_vars>>

SpecExtraction == Init /\ [][NextExtraction]_vars

\* One run of ArgumentExtractor.extract_arguments over the chunks of a document.
NextExtractor ==
    \/ ae_chunk_text /\ UNCHANGED <<first_vars, middle_vars, extraction_vars, sample_vars, metacog_vars, lexical_vars, processor_vars>>
    \/ ae_process_chunk /\ UNCHANGED <<first_vars, middle_vars, extraction_vars, sample_vars, metacog_vars, lexical_vars, processor_vars>>
    \/ ae_merge_findings /\ UNCHANGED <<first_vars, middle_vars, extraction_vars, sample_vars, metacog_vars, lexical_vars, processor_vars>>
    \/ ae_extract_and_build /\ UNCHANGED <<first_vars, middle_vars, extraction_vars, sample_vars, metacog_vars, lexical_vars, processor_vars>>
    \/ ae_create_node /\ UNCHANGED <<first_vars, middle_vars, extraction_vars, sample_vars, metacog_vars, lexical_vars, processor_vars>>
    \/ ae_return /\ UNCHANGED <<first_vars, middle_vars, extraction_vars, sample_vars, metacog_vars, lexical_vars, processor_vars>>

SpecExtractor == Init /\ [][NextExtractor]_vars

\* One run of process_text of extract_claims_from_sample.py.
NextSample ==
    \/ pt_extract_claims /\ UNCHANGED <<first_vars, middle_vars, extraction_vars, extractor_vars, metacog_vars, lexical_vars, processor_vars>>
    \/ pt_claim_loop /\ UNCHANGED <<first_vars, middle_vars, extraction_vars, extractor_vars, metacog_vars, lexical_vars, processor_vars>>
    \/ pt_position_loop /\ UNCHANGED <<first_vars, middle_vars, extraction_vars, extractor_vars, metacog_vars, lexical_vars, processor_vars>>
    \/ pt_argument_loop /\ UNCHANGED <<first_vars, middle_vars, extraction_vars, extractor_vars, metacog_vars, lexical_vars, processor_vars>>

SpecSample == Init /\ [][NextSample]_vars

\* One run of create_metacog_schema of create_metacog_schema_opencypher.py.
NextMetacog ==
    \/ ms_count_nodes
          /\ UNCHANGED <<first_vars, middle_vars, extraction_vars, extractor_vars, sample_vars, lexical_vars, processor_vars>>
    \/ ms_create
          /\ UNCHANGED <<first_vars, middle_vars, extraction_vars, extractor_vars, sample_vars, lexical_vars, processor_vars>>
    \/ ms_return
          /\ UNCHANGED <<first_vars, middle_vars, extraction_vars, extractor_vars, sample_vars, lexical_vars, processor_vars>>

SpecMetacog == Init /\ [][NextMetacog]_vars

\* A mock LexicalGraph that is filled and queried.
NextLexical ==
    \/ add_document
          /\ UNCHANGED <<first_vars, middle_vars, extraction_vars, extractor_vars, sample_vars,
                         metacog_vars, processor_vars>>
    \/ add_facts
          /\ UNCHANGED <<first_vars, middle_vars, extraction_vars, extractor_vars, sample_vars,
                         metacog_vars, processor_vars>>
    \/ query_lexical_graph
          /\ UNCHANGED <<first_vars, middle_vars, extraction_vars, extractor_vars, sample_vars,
                         metacog_vars, processor_vars>>

SpecLexical == Init /\ [][NextLexical]_vars

\* Documents that are made and processed by a mock DocumentProcessor; a call
\* of process that has started goes on running.
NextProcessor ==
    \/ dp_new_document
          /\ UNCHANGED <<first_vars, middle_vars, extraction_vars, extractor_vars, sample_vars,
                         metacog_vars, lexical_vars>>
    \/ dp_process
          /\ UNCHANGED <<first_vars, middle_vars, extraction_vars, extractor_vars, sample_vars,
                         metacog_vars, lexical_vars>>
    \/ dp_loop
          /\ UNCHANGED <<first_vars, middle_vars, extraction_vars, extractor_vars, sample_vars,
                         metacog_vars, lexical_vars>>
    \/ dp_return
          /\ UNCHANGED <<first_vars, middle_vars, extraction_vars, extractor_vars, sample_vars,
                         metacog_vars, lexical_vars>>

ProcessRuns ==
    (dp_loop \/ dp_return)
    /\ UNCHANGED <<first_vars, middle_vars, extraction_vars, extractor_vars, sample_vars,
                         metacog_vars, lexical_vars>>

SpecProcessor == Init /\ [][NextProcessor]_vars /\ WF_vars(ProcessRuns)

\* ------------------------------------------------------------------ claims: chunk_text
ValidOverlap == 0 <= overlap /\ overlap < chunk_size

\* C1 (as claimed): with chunk_size >= 1 and 0 <= overlap < chunk_size the loop
\* always makes progress, so the call terminates: every iteration begins at a
\* start strictly greater than the one before, and leaves start strictly
\* greater than the start it began with.
C1_LoopMakesProgress ==
    ValidOverlap =>
        /\ \A k \in 1..(Len(spans) - 1) : spans[k + 1][1] > spans[k][1]
        /\ (spans # <<>> => start > spans[Len(spans)][1])

\* C2: every appended chunk is a non-empty contiguous substring of the text of
\* at most chunk_size characters.
C2_ChunksAreBoundedSubstrings ==
    \A k \in 1..Len(chunks) :
        /\ chunks[k] # <<>>
        /\ Len(chunks[k]) <= chunk_size
        /\ \E s \in 0..(Len(text) - Len(chunks[k])) :
               \A i \in 1..Len(chunks[k]) : chunks[k][i] = text[s + i]

\* a first chunk cut short at a break, followed by a different chunk
C2_Witness ==
    /\ Len(chunks) >= 2
    /\ Len(chunks[1]) < chunk_size
    /\ Len(chunks[1]) < Len(text)
    /\ chunks[2] # chunks[1]
    /\ Len(chunks[2]) > overlap

\* The positions i of the window [s, w) at which the two characters of b stand.
BreaksIn(b, s, w) ==
    { i \in s..(w - 2) : text[i + 1] = b[1] /\ text[i + 2] = b[2] }

SetMax(S) == CHOOSE m \in S : \A x \in S : x <= m

Half(s) == s + (chunk_size \div 2)

ParagraphEnds(s, w) == { i + 2 : i \in { j \in BreaksIn(PARAGRAPH, s, w) : j > Half(s) } }

SentenceBreaks(s, w) ==
    BreaksIn(SENT_DOT, s, w) \cup BreaksIn(SENT_BANG, s, w) \cup BreaksIn(SENT_QUERY, s, w)

\* The end the claim gives to the chunk that starts at s.
ClaimedEnd(s) ==
    LET w == s + chunk_size
    IN  IF w >= Len(text) THEN Len(text)
        ELSE IF ParagraphEnds(s, w) # {} THEN SetMax(ParagraphEnds(s, w))
        ELSE IF SentenceBreaks(s, w) # {} /\ SetMax(SentenceBreaks(s, w)) > Half(s)
             THEN SetMax(SentenceBreaks(s, w)) + 2
        ELSE w

\* C3: the chunk end is the last paragraph break of the window when it lies
\* after start + chunk_size // 2, else the last sentence break when it does,
\* else start + chunk_size; a window reaching the end of the text is not
\* shortened.
C3_EndSelectionOrder ==
    \A k \in 1..Len(spans) : spans[k][2] = ClaimedEnd(spans[k][1])

\* a chunk ended at a paragraph break although a sentence break stands later
\* in its window
C3_Witness ==
    \E k \in 1..Len(spans) :
        LET s == spans[k][1]
            w == s + chunk_size
        IN  /\ w < Len(text)
            /\ ParagraphEnds(s, w) # {}
            /\ spans[k][2] = SetMax(ParagraphEnds(s, w))
            /\ \E i \in SentenceBreaks(s, w) : i + 2 > spans[k][2]

Shared(a, b) == Max(0, Min(a[2], b[2]) - Max(a[1], b[1]))

\* C4: a chunk that follows a chunk longer than overlap starts exactly overlap
\* characters before that chunk's end, and consecutive chunks never share
\* more than overlap characters.
C4_OverlapBetweenChunks ==
    \A k \in 1..(Len(spans) - 1) :
        /\ (spans[k][2] - spans[k][1] > overlap
               => spans[k + 1][1] = spans[k][2] - overlap)
        /\ Shared(spans[k], spans[k + 1]) <= overlap

C4_Witness ==
    /\ overlap > 0
    /\ Len(spans) >= 3
    /\ spans[1][2] - spans[1][1] > overlap
    /\ spans[2][1] = spans[1][2] - overlap
    /\ spans[2][2] > spans[1][2]
    /\ Shared(spans[1], spans[2]) = overlap


\* C5: called with the same text, chunk_size and overlap, the copies of the
\* routine go through the same (start, end) positions and build the same list
\* of chunks, and one returns only where the others do.
C5_CopiesAgree ==
    \A c \in Copies :
        /\ \A k \in 1..Min(Len(spans), Len(copy_spans[c])) :
               /\ copy_spans[c][k] = spans[k]
               /\ copy_chunks[c][k] = chunks[k]
        /\ (Len(copy_spans[c]) = Len(spans) => copy_start[c] = start)
        /\ (pc = "done" => Len(copy_spans[c]) <= Len(spans))
        /\ (copy_pc[c] = "done" => Len(spans) <= Len(copy_spans[c]))
        /\ (pc = "done" /\ copy_pc[c] = "done" => copy_chunks[c] = chunks)

\* all four copies have returned the same three or more chunks, one of them cut
\* short at a break
C5_Witness ==
    /\ pc = "done"
    /\ \A c \in Copies : copy_pc[c] = "done" /\ copy_chunks[c] = chunks
    /\ Len(chunks) >= 2
    /\ Len(chunks[1]) < chunk_size


\* ------------------------------------------------------------------ claims: config
\* The connection string the claims prescribe for an environment e.
ClaimedScheme(e) ==
    IF e["NEPTUNE_AUTH_MODE"] \in {"IAM", "iam", "Iam"} THEN "wss://" ELSE "ws://"

ClaimedPort(e) == IF e["NEPTUNE_PORT"] = None THEN "8182" ELSE e["NEPTUNE_PORT"]

ClaimedString(e) ==
    ClaimedScheme(e) \o e["NEPTUNE_ENDPOINT"] \o ":" \o ClaimedPort(e) \o "/gremlin"

EndpointSet(e) == e["NEPTUNE_ENDPOINT"] # None /\ e["NEPTUNE_ENDPOINT"] # ""

\* C6: with the endpoint and the auth mode set in the environment the module
\* read, every call returns wss://<endpoint>:<port>/gremlin when the auth mode
\* is IAM in any letter case and ws://<endpoint>:<port>/gremlin for every other
\* auth mode, <port> being NEPTUNE_PORT, or 8182 when NEPTUNE_PORT is not set.
C6_ConnectionString ==
    [][ (get_neptune_connection_string_call
           /\ EndpointSet(exec_environ)
           /\ exec_environ["NEPTUNE_AUTH_MODE"] # None)
        => conn_result' = [kind |-> "return", value |-> ClaimedString(exec_environ)] ]_vars

\* a lower-case iam mode and an unset port gave wss:// with port 8182
C6_Witness ==
    /\ conn_result.kind = "return"
    /\ conn_result.value = "wss://test-endpoint:8182/gremlin"
    /\ exec_environ["NEPTUNE_AUTH_MODE"] = "iam"
    /\ exec_environ["NEPTUNE_PORT"] = None

\* C7: a call raises ValueError, and returns no string, whenever
\* NEPTUNE_ENDPOINT is unset or empty in the environment the module read.
C7_MissingEndpointRaises ==
    [][ (get_neptune_connection_string_call /\ ~EndpointSet(exec_environ))
        => conn_result' = [kind |-> "raise", value |-> "ValueError"] ]_vars

\* the call raised for an endpoint set to the empty string
C7_Witness ==
    /\ conn_result.kind = "raise"
    /\ cfg_loaded
    /\ exec_environ["NEPTUNE_ENDPOINT"] = ""
    /\ exec_environ["NEPTUNE_AUTH_MODE"] = "DEFAULT"

\* C8 (as claimed): a call made right after an import statement, under the
\* environment of that import, uses that environment: ws:// under
\* NEPTUNE_AUTH_MODE=DEFAULT, wss:// under NEPTUNE_AUTH_MODE=IAM, whatever the
\* environment was at an earlier import.
C8_CallUsesCurrentEnvironment ==
    [][ (get_neptune_connection_string_call
           /\ import_fresh
           /\ EndpointSet(environ)
           /\ environ["NEPTUNE_AUTH_MODE"] \in {"IAM", "DEFAULT"})
        => conn_result' = [kind |-> "return", value |-> ClaimedString(environ)] ]_vars


C10_AddEvidenceWritesBoth ==
    (es_call.op = "add_evidence" /\ es_call.kind = "return") =>
        LET evidence == es_call.args[1]
            embedding == es_call.args[2]
            n == es_call.log_start
        IN  /\ Len(store_log) = n + 2
            /\ store_log[n + 1].op = "add_vector"
            /\ store_log[n + 1].store = _vector_store
            /\ store_log[n + 1].id = evidence.evidence_id
            /\ store_log[n + 1].vector = embedding
            /\ store_log[n + 1].payload = to_dict(evidence)
            /\ store_log[n + 1].outcome = "return"
            /\ store_log[n + 2].op = "add_vertex"
            /\ store_log[n + 2].store = _graph_store
            /\ store_log[n + 2].label = "Evidence"
            /\ store_log[n + 2].payload = to_dict(evidence)
            /\ store_log[n + 2].payload.id = store_log[n + 1].id
            /\ store_log[n + 2].outcome = "return"
            /\ es_call.value = store_log[n + 1].returned

\* a second add_evidence returned an id of the vector store's own choosing
C10_Witness ==
    /\ es_call.op = "add_evidence"
    /\ es_call.kind = "return"
    /\ es_call.log_start = 2
    /\ store_log[1].op = "add_vector"
    /\ store_log[2].op = "add_vertex"
    /\ es_call.value = "vector-7"
    /\ es_call.args[1].evidence_id = "evidence-2"

\* C11: get_evidence(id) returns None when no vertex labelled 'Evidence' has
\* that id; otherwise it returns an Evidence with the requested id and with the
\* content and source of a matching vertex. No call of it changes the graph or
\* reaches a store.
C11_GetEvidence ==
    [][es_call'.op = "get_evidence" /\ get_evidence =>
        LET evidence_id == es_call'.args[1]
            labelled == {v \in g_vertices : /\ v.label = "Evidence"
                                            /\ v.properties.id = evidence_id}
            value == es_call'.value
        IN  /\ labelled = {} => value = <<>>
            /\ labelled # {} =>
                  /\ Len(value) = 1
                  /\ value[1].evidence_id = evidence_id
                  /\ \E v \in labelled : /\ value[1].content = v.properties.content
                                         /\ value[1].source = v.properties.source
            /\ g_vertices' = g_vertices
            /\ store_log' = store_log
            /\ vector_ctor_calls' = vector_ctor_calls
            /\ graph_ctor_calls' = graph_ctor_calls]_vars

\* get_evidence has found an evidence that add_evidence stored, in a graph
\* that also holds the schema's example vertices.
C11_Witness ==
    /\ es_call.op = "get_evidence"
    /\ es_call.value # <<>>
    /\ es_call.args[1] = "evidence-1"
    /\ ArgumentExample \in g_vertices

C13_EvidenceKeepsWhatItIsGiven ==
    obj # <<>> =>
        /\ obj_args.evidence_id # None => obj[1].evidence_id = obj_args.evidence_id
        /\ obj_args.evidence_id = None =>
              \E uuid4 \in UUIDs : obj[1].evidence_id = "evidence-" \o uuid4
        /\ obj[1].content = obj_args.content
        /\ obj[1].source = obj_args.source
        /\ obj[1].metadata = IF obj_args.metadata = <<>> THEN EmptyDict
                                                          ELSE obj_args.metadata[1]

\* C13, amended: an Evidence built with a non-empty evidence_id keeps that id;
\* one built with no evidence_id, or with an empty one, has an id
\* 'evidence-<uuid4>'; content and source are stored as given, and metadata is
\* stored as given, {} when none is given.
C13_EvidenceKeepsNonEmptyId ==
    obj # <<>> =>
        /\ ~falsy(obj_args.evidence_id) => obj[1].evidence_id = obj_args.evidence_id
        /\ falsy(obj_args.evidence_id) =>
              \E uuid4 \in UUIDs : obj[1].evidence_id = "evidence-" \o uuid4
        /\ obj[1].content = obj_args.content
        /\ obj[1].source = obj_args.source
        /\ obj[1].metadata = IF obj_args.metadata = <<>> THEN EmptyDict
                                                          ELSE obj_args.metadata[1]

\* The test's Evidence: built with an id and a metadata, and turned into a
\* dict that carries both.
C13_Witness ==
    /\ obj # <<>>
    /\ obj_args.evidence_id = "test-id-123"
    /\ obj_args.metadata = <<[key |-> "value"]>>
    /\ obj[1].evidence_id = "test-id-123"
    /\ obj_dict # <<>>
    /\ obj_dict[1].id = "test-id-123"

\* What json.loads makes of the parts of s that it accepts.
ParsedParts(s) ==
    {json_loads(SubSeq(s, i, j)).value :
        <<i, j>> \in {ij \in (1..Len(s)) \X (1..Len(s)) :
                         /\ ij[1] <= ij[2]
                         /\ json_loads(SubSeq(s, ij[1], ij[2])).kind = "return"}}

\* The JSON arrays of objects that s contains, parsed.
ArraysOfObjects(s) ==
    {v \in ParsedParts(s) : /\ v.type = "list"
                            /\ v.items # <<>>
                            /\ \A n \in DOMAIN v.items : v.items[n] = PyDict}

\* C14: _extract_json never raises; whatever the response, it returns a list,
\* and the list is empty when the response is None or empty or when no part of
\* it is JSON.
C14_ExtractJsonNeverRaises ==
    ej_result # NoJsonCall =>
        /\ ej_result.kind = "return"
        /\ ej_result.value.type = "list"
        /\ (\/ ej_response = <<>>
            \/ ej_response[1] = <<>>
            \/ ParsedParts(ej_response[1]) = {}) => ej_result.value = PyList(<<>>)

\* A response with braces around prose: json.loads raised inside the try
\* block and the call still returned [].
C14_Witness ==
    /\ ej_result = JsonReturn(PyList(<<>>))
    /\ ej_response # <<>>
    /\ search_object(ej_response[1]) # <<>>
    /\ "x" \in {ej_response[1][n] : n \in DOMAIN ej_response[1]}
    /\ _extract_json_try(ej_response[1]) = JSONDecodeError

\* C15: when the response contains a valid JSON array of objects, the parsed
\* array is returned; when it contains none but contains a valid JSON object,
\* a list of that one object is returned.
C15_ArrayFirstThenObject ==
    (ej_result # NoJsonCall /\ ej_response # <<>>) =>
        LET arrays == ArraysOfObjects(ej_response[1])
        IN  /\ arrays # {} => ej_result.value \in arrays
            /\ (arrays = {} /\ PyDict \in ParsedParts(ej_response[1])) =>
                  ej_result.value = PyList(<<PyDict>>)

\* The ids that the n-th invoke_model call of process_document contributes to
\* the argument model when it and the calls before it succeed.
Contributed(n) ==
    CASE n = 1 -> {"issue1", "issue2"}
      [] n = 2 -> {"position1_1"}
      [] n = 3 -> {"arg1_1_sup1", "evidence1_1_sup1"}
      [] n = 4 -> {"arg1_1_reb1"}
      [] n = 5 -> {"position2_1"}
      [] n = 6 -> {"arg2_1_sup1", "evidence2_1_sup1"}
      [] n = 7 -> {"arg2_1_reb1"}
      [] OTHER -> {}

\* The ids of everything in an argument model.
IdsOf(model) ==
    {model.issues[n].id : n \in DOMAIN model.issues}
        \cup {model.positions[n].id : n \in DOMAIN model.positions}
        \cup {model.arguments[n].id : n \in DOMAIN model.arguments}
        \cup {model.evidence[n].id : n \in DOMAIN model.evidence}

\* C16: an invoke_model that raises makes the extract_* call return []; and
\* process_document, given a document with content, returns an argument model
\* that holds everything the calls before a failed call extracted and nothing
\* of the failed call.
C16_BedrockFailureNotPropagated ==
    /\ (bc_call.op # "none" /\ bc_call.invoke.kind = "raise") =>
            (bc_call.kind = "return" /\ bc_call.value = <<>>)
    /\ (pd_call.outcome.kind # "none" /\ pd_call.content # <<>>) =>
            /\ pd_call.outcome.kind = "return"
            /\ \A n \in 1..AllCalls :
                  /\ (pd_call.fail_at = 0 \/ n < pd_call.fail_at) =>
                        Contributed(n) \subseteq IdsOf(pd_call.outcome.arguments)
                  /\ n = pd_call.fail_at =>
                        Contributed(n) \cap IdsOf(pd_call.outcome.arguments) = {}

\* C17: NeptuneAnalyticsAdapter(graph_id) raises ValueError when no graph_id is
\* passed and NEPTUNE_ANALYTICS_GRAPH_ID is not set; otherwise its connection
\* string is 'neptune-graph://' followed by the passed graph_id, or by the
\* variable when none is passed. initialize_graph_stores builds its stores on
\* the passed connection_string, else on the passed graph_id, else on the
\* environment.
C17_AdapterConnectionString ==
    LET a == na_call.args
        env == na_call.environ
        o == na_call.outcome
    IN  /\ na_call.op = "__init__" =>
              IF a.graph_id = None /\ env[GRAPH_ID_VAR] = None
              THEN o.kind = "raise" /\ o.error = "ValueError"
              ELSE /\ o.kind = "return"
                   /\ o.self.connection_string =
                          SCHEME \o (IF a.graph_id # None THEN a.graph_id
                                                          ELSE env[GRAPH_ID_VAR])
        /\ (na_call.op = "initialize_graph_stores" /\ o.kind = "return") =>
              LET expected == IF a.connection_string # None THEN a.connection_string
                              ELSE IF a.graph_id # None THEN SCHEME \o a.graph_id
                              ELSE SCHEME \o env[GRAPH_ID_VAR]
              IN  o.value.graph_store = expected /\ o.value.vector_store = expected

\* C17, amended: as C17, with an empty graph_id, an empty connection_string
\* and an empty NEPTUNE_ANALYTICS_GRAPH_ID counted as not passed and not set.
C17_AdapterConnectionStringNonEmpty ==
    LET a == na_call.args
        env == na_call.environ
        o == na_call.outcome
    IN  /\ na_call.op = "__init__" =>
              IF falsy(a.graph_id) /\ falsy(env[GRAPH_ID_VAR])
              THEN o.kind = "raise" /\ o.error = "ValueError"
              ELSE /\ o.kind = "return"
                   /\ o.self.connection_string =
                          SCHEME \o (IF ~falsy(a.graph_id) THEN a.graph_id
                                                           ELSE env[GRAPH_ID_VAR])
        /\ (na_call.op = "initialize_graph_stores" /\ o.kind = "return") =>
              LET expected == IF ~falsy(a.connection_string) THEN a.connection_string
                              ELSE IF ~falsy(a.graph_id) THEN SCHEME \o a.graph_id
                              ELSE SCHEME \o env[GRAPH_ID_VAR]
              IN  o.value.graph_store = expected /\ o.value.vector_store = expected

\* An adapter built with a graph_id while the variable names another graph.
C17_Witness ==
    /\ na_call.op = "__init__"
    /\ na_call.args.graph_id = "g-arg"
    /\ na_call.environ[GRAPH_ID_VAR] = "g-env"
    /\ na_call.outcome.kind = "return"
    /\ na_call.outcome.self.connection_string = "neptune-graph://g-arg"

\* C18: run_tests.main returns 0 exactly when every group the flags select
\* (a group is selected unless the --...-only flag of another group is given)
\* ran and passed: the unit tests without failures and errors, the integration
\* and schema scripts all present and exited with 0. Otherwise it returns 1.
Selected(group) ==
    \A other \in {"unit", "integration", "schema"} \ {group} :
        ~(CASE other = "unit" -> rt_args.unit_only
            [] other = "integration" -> rt_args.integration_only
            [] other = "schema" -> rt_args.schema_only)

ScriptsPassed(run) ==
    /\ run # <<>>
    /\ \A i \in DOMAIN run[1].fates :
          /\ run[1].fates[i].exists
          /\ ~run[1].fates[i].raised
          /\ run[1].fates[i].returncode = 0

RanAndPassed(group) ==
    CASE group = "unit" ->
            rt_unit # <<>> /\ rt_unit[1].failures = 0 /\ rt_unit[1].errors = 0
      [] group = "integration" -> ScriptsPassed(rt_integration)
      [] group = "schema" -> ScriptsPassed(rt_schema)

C18_RunTestsExitCode ==
    rt_pc = "exit" =>
        /\ rt_exit \in {<<0>>, <<1>>}
        /\ (rt_exit = <<0>>) <=>
               \A group \in {"unit", "integration", "schema"} :
                   Selected(group) => RanAndPassed(group)

\* A full run in which only one schema script fails: by its return code.
C18_Witness ==
    /\ rt_pc = "exit"
    /\ ~rt_args.unit_only /\ ~rt_args.integration_only /\ ~rt_args.schema_only
    /\ RanAndPassed("unit") /\ RanAndPassed("integration")
    /\ rt_schema # <<>>
    /\ rt_schema[1].fates[1].returncode = 1
    /\ \A i \in 2..3 : rt_schema[1].fates[i] = [exists |-> TRUE, raised |-> FALSE, returncode |-> 0]
    /\ rt_exit = <<1>>

\* C19: with 0 <= overlap < chunk_size the chunks cover the text without gaps:
\* the first chunk starts at index 0, each later chunk starts no later than the
\* end of the chunk before it, and when the list is returned the last chunk
\* ends at the last character, so that every character of the text stands in
\* at least one chunk.
C19_ChunksCoverText ==
    ValidOverlap =>
        /\ (spans # <<>> => spans[1][1] = 0)
        /\ \A k \in 2..Len(spans) : spans[k][1] <= spans[k - 1][2]
        /\ (pc = "done" /\ text # <<>>) =>
               /\ spans # <<>>
               /\ spans[Len(spans)][2] = Len(text)
               /\ \A i \in 1..Len(text) :
                      \E k \in 1..Len(chunks) :
                          /\ spans[k][1] < i /\ i <= spans[k][2]
                          /\ chunks[k][i - spans[k][1]] = text[i]

\* A returned list of three chunks or more, each beginning where the one
\* before it ends.
C19_Witness ==
    /\ pc = "done"
    /\ ValidOverlap
    /\ Len(spans) >= 3
    /\ \A k \in 2..Len(spans) : spans[k][1] = spans[k - 1][2]
    /\ spans[Len(spans)][2] = Len(text)

IdsDistinct(list) ==
    \A a, b \in 1..Len(list) : a # b => list[a].id # list[b].id

IdsIn(list) == {list[n].id : n \in 1..Len(list)}

C22_ModelClosedAndIdsDistinct ==
    /\ \A n \in 1..Len(argument_model.positions) :
           argument_model.positions[n].issue_id \in IdsIn(argument_model.issues)
    /\ \A n \in 1..Len(argument_model.arguments) :
           argument_model.arguments[n].position_id \in IdsIn(argument_model.positions)
    /\ \A n \in 1..Len(argument_model.evidence) :
           argument_model.evidence[n].argument_id \in IdsIn(argument_model.arguments)
    /\ IdsDistinct(argument_model.issues)
    /\ IdsDistinct(argument_model.positions)
    /\ IdsDistinct(argument_model.arguments)
    /\ IdsDistinct(argument_model.evidence)

\* A finished run over two issues with two positions each, with supporting
\* and rebutting arguments and evidence for both kinds.
C22_Witness ==
    /\ ex_pc = "done"
    /\ Len(argument_model.issues) = 2
    /\ Len(argument_model.positions) = 4
    /\ \E a, b \in 1..Len(argument_model.evidence) :
           /\ argument_model.evidence[a].id = "evidence2_2_sup2"
           /\ argument_model.evidence[b].id = "evidence2_2_reb1"

\* C21: once extract_arguments has processed every chunk and run
\* _merge_findings, no two issues, no two positions, no two arguments and no
\* two evidence items of the argument model share an id.
C21_MergedFindingsHaveDistinctIds ==
    ae_pc = "merged" =>
        /\ IdsDistinct(ae_model.issues)
        /\ IdsDistinct(ae_model.positions)
        /\ IdsDistinct(ae_model.arguments)
        /\ IdsDistinct(ae_model.evidence)

\* C24: _add_arguments_to_graph issues all issue queries before any position
\* query, all position queries before any argument query and all argument
\* queries before any evidence query, so that whenever a query that links a
\* node to its parent is executed, the parent has already been created.
Rank(label) ==
    CASE label = "Issue" -> 1 [] label = "Position" -> 2
      [] label = "Argument" -> 3 [] label = "Evidence" -> 4

ParentsBeforeChildren ==
    \A a, b \in 1..Len(ae_queries) :
        a < b => Rank(ae_queries[a].query.label) <= Rank(ae_queries[b].query.label)

C23_OffsetAvoidsCollisions ==
    /\ \A x, y \in pt_ids :
           (/\ x.prefix = y.prefix
            /\ x.claim = y.claim /\ x.position = y.position
            /\ x.kind = "sup" /\ y.kind = "reb") => x.id # y.id
    /\ \A x, y \in pt_ids :
           (x.prefix = y.prefix /\ x.text = y.text /\ x.index = y.index) => x.id = y.id

\* C25: create_metacog_schema stops at the first query that fails: after a
\* node or relationship query that failed no later query is issued and False
\* is returned, and True is returned only if every node query and every
\* relationship query succeeded.
QueryFailed(n) == ms_log[n].query # "count" /\ ms_log[n].fate # "answer"

C25_StopsAtFirstFailedQuery ==
    /\ \A n \in 1..Len(ms_log) :
           QueryFailed(n) => (n = Len(ms_log) /\ ms_pc = "returned" /\ ms_result = <<FALSE>>)
    /\ ms_result = <<TRUE>> =>
           /\ Len(ms_log) = Len(SchemaQueries) + 1
           /\ \A n \in 1..Len(ms_log) : ~QueryFailed(n)

\* C26: the mock LexicalGraph.query returns only facts whose subject,
\* predicate or object contains the lower-cased query string, each with the
\* sum of 0.8 for the subject, 0.5 for the predicate and 0.7 for the object
\* (here in tenths), sorted by non-increasing score, and never more than top_k
\* results, whatever add_facts calls came before; the query changes neither
\* the stored facts nor the documents.
Holds(field, query) ==
    \E from \in 1..(Len(field) + 1) :
        /\ from + Len(query) - 1 <= Len(field)
        /\ lower(SubSeq(field, from, from + Len(query) - 1)) = lower(query)

Tenths(fact, query) ==
    (IF Holds(fact.subject, query) THEN 8 ELSE 0)
    + (IF Holds(fact.predicate, query) THEN 5 ELSE 0)
    + (IF Holds(fact.object, query) THEN 7 ELSE 0)

QueryResultsAsScored ==
    LET results == lg_call.value
    IN  /\ \A n \in 1..Len(results) :
              /\ results[n].score > 0
              /\ \E m \in 1..Len(lg_call.facts) :
                    /\ results[n].fact.subject = lg_call.facts[m].subject
                    /\ results[n].fact.predicate = lg_call.facts[m].predicate
                    /\ results[n].fact.object = lg_call.facts[m].object
                    /\ results[n].score = Tenths(lg_call.facts[m], lg_call.query)
        /\ \A n \in 1..(Len(results) - 1) : results[n].score >= results[n + 1].score
        /\ lg_facts = lg_call.facts
        /\ lg_documents = lg_call.documents

ProcessorAsRequired ==
    dp_self.chunk_size > dp_self.chunk_overlap /\ dp_self.chunk_overlap >= 0

ChunksAsClaimed ==
    LET made == dp_document.chunks
        apart == dp_self.chunk_size - dp_self.chunk_overlap
        from(k) == (k - 1) * apart
    IN  /\ \A k \in 1..Len(made) :
              /\ made[k].id = <<dp_document.id, "_chunk_", k - 1>>
              /\ Len(made[k].text) <= dp_self.chunk_size
              /\ Len(made[k].text) >= 1
              /\ from(k) + Len(made[k].text) <= Len(dp_document.text)
              /\ \A n \in 1..Len(made[k].text) :
                    made[k].text[n] = dp_document.text[from(k) + n]
              /\ \/ Len(made[k].text) = dp_self.chunk_size
                 \/ from(k) + Len(made[k].text) = Len(dp_document.text)
        /\ \A p \in 1..Len(dp_document.text) :
              \E k \in 1..Len(made) : from(k) < p /\ p <= from(k) + Len(made[k].text)
        /\ dp_document.text = <<>> => made = <<>>
        /\ made = dp_chunks

C27_ProcessChunksDocument ==
    /\ [](ProcessorAsRequired /\ dp_pc = "done" => ChunksAsClaimed)
    /\ [](ProcessorAsRequired => dp_pc # "raised")
    /\ (ProcessorAsRequired /\ dp_pc = "loop") ~> (dp_pc = "done")

\* A text of five characters cut into three chunks of three characters that
\* overlap by one.
C27_Witness ==
    /\ dp_pc = "done"
    /\ dp_self.chunk_size = 3
    /\ dp_self.chunk_overlap = 1
    /\ dp_document.text = Alphabet
    /\ Len(dp_document.chunks) = 3
    /\ dp_document.chunks[3].id = <<dp_document.id, "_chunk_", 2>>
    /\ dp_document.chunks[3].text = <<"e">>

====
